---- MODULE Spec2Model ----
(***************************************************************************)
(* Model of the auto-healer (src/apps/auto-healer): the healing cycle of   *)
(* AutoHealerService (main.py) and the helpers of healer.py.               *)
(*                                                                         *)
(* The cluster is an external collaborator: every cluster call takes its   *)
(* response from a bounded set, either a value or an ApiException          *)
(* (ok = FALSE).  Calls, with their arguments and responses, are recorded  *)
(* in the history variable `calls`, heal_deployment invocations in         *)
(* `heal_log`.                                                             *)
(***************************************************************************)
EXTENDS Integers, Sequences, FiniteSets, TLC

(* ------------------------------ bounds -------------------------------- *)
MaxPods == 1
MaxContainers == 2
MaxRestart == 1
MaxThreshold == 1
MaxCycleOwners == 1
MaxOwners == 2
MaxHeals == 1
MaxInspectContainers == 2
MaxInspectRestart == 3
MaxInspectThreshold == 3
MaxReplicas == 2
MaxSummaryPods == 2
MaxSummaryContainers == 2
MaxSummaryRestart == 3
MaxSummaryDeployments == 1
MaxCycles == 2
MaxClusterContainers == 1
MaxSequenceCycles == 2
MaxClock == 2
MaxPatches == 3

(* ------------------------- program constants -------------------------- *)
Namespaces == <<"portal", "hrt-sre">>

PodNames == <<"web-1", "web-2", "web-3">>
ContainerNames == <<"app", "sidecar", "proxy", "init">>
ReplicaSetNames == {"rs-1", "rs-2"}
CycleReplicaSetNames == {"rs-1"}
DeploymentNames == {"app-1", "app-2"}
OtherOwnerKind == "StatefulSet"

ActionTypes == {"restart", "dry_run_restart"}
ErrorTypes == {"api_error", "patch_failed", "cycle_error"}

VARIABLES
    mode,              \* which entry point drives the run: "cycle", ...
    dry_run,           \* AutoHealerService.dry_run
    restart_threshold, \* AutoHealerService.restart_threshold
    pc,                \* position of run_healing_cycle / main
    ns_i,              \* get_unhealthy_pods: index of the namespace being listed
    unhealthy_pods,    \* dict namespace -> records, as a sequence in insertion order
    cur,               \* run_healing_cycle: <<entry, record>> position of the loops
    healed_count,      \* run_healing_cycle: healed_count
    status,            \* main: status of the job summary
    HEAL_ACTIONS,      \* Counter, labels (type, namespace, resource)
    HEAL_ERRORS,       \* Counter, label error_type
    UNHEALTHY_PODS,    \* Gauge
    calls,             \* history: cluster calls and sleeps, in order
    heal_log,          \* history: heal_deployment invocations, in order
    the_pod,           \* the pod a helper of healer.py is asked about
    result,            \* what the last call of a helper of healer.py returned
    report,            \* the count-carrying log lines of the cycle and main's job summary
    the_namespace,     \* the namespace NamespaceHealthChecker is asked about
    cluster,           \* what the cluster holds: the pods and their owning Deployment,
                       \* or the Deployment that restart patches are applied to
    cycles,            \* the state of each run of main, or of each cycle of one process
    clock              \* the instant that datetime.now(timezone.utc) returns

vars == <<mode, dry_run, restart_threshold, pc, ns_i, unhealthy_pods, cur,
          healed_count, status, HEAL_ACTIONS, HEAL_ERRORS, UNHEALTHY_PODS, calls,
          heal_log, the_pod, result, report, the_namespace, cluster, cycles,
          clock>>

(* ------------------------- bounded input sets ------------------------- *)
SeqsUpTo(S, n) == UNION {[1..k -> S] : k \in 0..n}

Thresholds == 0..MaxThreshold
RestartCounts == 0..MaxRestart

\* container_statuses of a pod: <<>> stands for None or an empty list.
ContainerLists ==
    {cs \in SeqsUpTo([name : {ContainerNames[i] : i \in 1..MaxContainers},
                      restart_count : RestartCounts], MaxContainers) :
        \A i \in 1..Len(cs) : cs[i].name = ContainerNames[i]}

\* items of a pod list: pod names are unique within a namespace.
PodLists ==
    {ps \in SeqsUpTo([name : {PodNames[i] : i \in 1..MaxPods},
                      container_statuses : ContainerLists], MaxPods) :
        \A i \in 1..Len(ps) : ps[i].name = PodNames[i]}

ApiException == [ok |-> FALSE, value |-> <<>>]
Returned(v) == [ok |-> TRUE, value |-> v]

ListResponses == {ApiException} \cup {Returned(ps) : ps \in PodLists}

OtherOwner == [kind |-> OtherOwnerKind, name |-> "db"]
PodOwnerRefs == [kind : {"ReplicaSet"}, name : ReplicaSetNames] \cup {OtherOwner}
CyclePodOwnerRefs == [kind : {"ReplicaSet"}, name : CycleReplicaSetNames] \cup {OtherOwner}
RsOwnerRefs == [kind : {"Deployment"}, name : DeploymentNames] \cup {OtherOwner}

OwnerResponses(refs, n) == {ApiException} \cup {Returned(os) : os \in SeqsUpTo(refs, n)}

MaxOwnersAny == IF MaxOwners > MaxCycleOwners THEN MaxOwners ELSE MaxCycleOwners

(* ------------------------------ counters ------------------------------ *)
ActionLabels == ActionTypes \X {Namespaces[i] : i \in 1..Len(Namespaces)} \X DeploymentNames

RECURSIVE IncAll(_, _)
IncAll(counter, labels) ==
    IF labels = <<>> THEN counter
    ELSE IncAll([counter EXCEPT ![Head(labels)] = @ + 1], Tail(labels))

(* ------------------------ cluster call records ------------------------ *)
Call(op, name, namespace, resp, heal) ==
    [op |-> op, name |-> name, namespace |-> namespace,
     ok |-> resp.ok, value |-> resp.value, heal |-> heal]

Sleep(heal) ==
    [op |-> "sleep", name |-> "", namespace |-> "", ok |-> TRUE, value |-> <<>>,
     heal |-> heal]

(* ------------------- get_unhealthy_pods (main.py) --------------------- *)
\* One record per container whose restart count reaches the threshold.
RECURSIVE UnhealthyContainers(_, _, _, _)

\* Mutant: a container one restart short of the threshold is recorded too.
UnhealthyContainers_OneShort(pod, namespace, threshold, i) ==
    IF i > Len(pod.container_statuses) THEN <<>>
    ELSE LET container == pod.container_statuses[i]
             rest == UnhealthyContainers(pod, namespace, threshold, i + 1)
         IN IF container.restart_count + 1 >= threshold
            THEN <<[name |-> pod.name, namespace |-> namespace,
                    restart_count |-> container.restart_count,
                    container |-> container.name]>> \o rest
            ELSE rest

\* main.py 62-74: the containers of one listed pod.
UnhealthyContainers(pod, namespace, threshold, i) ==
    IF i > Len(pod.container_statuses) THEN <<>>
    ELSE LET container == pod.container_statuses[i]
             rest == UnhealthyContainers(pod, namespace, threshold, i + 1)
         IN IF container.restart_count >= threshold
            THEN <<[name |-> pod.name, namespace |-> namespace,
                    restart_count |-> container.restart_count,
                    container |-> container.name]>> \o rest
            ELSE rest

RECURSIVE UnhealthyOf(_, _, _)
UnhealthyOf(items, namespace, threshold) ==
    IF items = <<>> THEN <<>>
    ELSE UnhealthyContainers(Head(items), namespace, threshold, 1)
            \o UnhealthyOf(Tail(items), namespace, threshold)

(* ----------------- DeploymentPatcher (healer.py) ---------------------- *)
\* healer.py 108, 207, 242: the time of the call, datetime.now(timezone.utc).isoformat();
\* isoformat is one-to-one, so the instant stands for its text.
Now == clock

\* Mutant: the restart patch also sets the replica count.
RestartPatch_SetsReplicas ==
    [spec |-> [replicas |-> 1,
               template |-> [metadata |-> [annotations |->
                    ("kubectl.kubernetes.io/restartedAt" :> Now)
                        @@ ("auto-healer/restarted-at" :> Now)
                        @@ ("auto-healer/reason" :> "high-restart-count")]]]]

\* Mutant: the annotations carry a fixed timestamp, not the time of the call.
RestartPatch_FixedTimestamp ==
    [spec |-> [template |-> [metadata |-> [annotations |->
        ("kubectl.kubernetes.io/restartedAt" :> 0)
            @@ ("auto-healer/restarted-at" :> 0)
            @@ ("auto-healer/reason" :> "high-restart-count")]]]]

\* healer.py 108-122: the merge patch of a restart, the pod template's annotations.
RestartPatch ==
    [spec |-> [template |-> [metadata |-> [annotations |->
        ("kubectl.kubernetes.io/restartedAt" :> Now)
            @@ ("auto-healer/restarted-at" :> Now)
            @@ ("auto-healer/reason" :> "high-restart-count")]]]]

\* healer.py 174-178: the merge patch of a scale.
ScalePatch(replicas) == [spec |-> [replicas |-> replicas]]

\* healer.py 124-128, 180-184: patch_namespaced_deployment and what the try
\* block does with it: return True, or leave with the ApiException.
PatchDeployment(deployment_name, namespace, body, patchOk, h) ==
    [ret |-> patchOk, raised |-> ~patchOk,
     calls |-> <<[op |-> "patch_namespaced_deployment", name |-> deployment_name,
                  namespace |-> namespace, ok |-> patchOk, value |-> <<>>,
                  heal |-> h, body |-> body]>>]

\* Mutant: the ApiException of the restart patch is not caught.
CatchPatchError_Missing(r) == r

\* healer.py 133-135: the ApiException is logged and becomes False.
CatchPatchError(r) ==
    IF r.raised THEN [r EXCEPT !.ret = FALSE, !.raised = FALSE] ELSE r

\* healer.py 105-135
restart_deployment(deployment_name, namespace, patchOk, h) ==
    CatchPatchError(PatchDeployment(deployment_name, namespace, RestartPatch, patchOk, h))

\* healer.py 189-191: the ApiException is logged and becomes False.
CatchScaleError(r) ==
    IF r.raised THEN [r EXCEPT !.ret = FALSE, !.raised = FALSE] ELSE r

\* healer.py 171-191
scale_deployment(deployment_name, namespace, replicas, patchOk, h) ==
    CatchScaleError(PatchDeployment(deployment_name, namespace, ScalePatch(replicas),
                                    patchOk, h))

(* ------------------ AutoHealerService.heal_deployment ----------------- *)
\* What an invocation did: its return value, its cluster calls, the labels of
\* HEAL_ACTIONS and HEAL_ERRORS it incremented, and whether it raised instead of
\* returning.
Outcome(ret, cs, actions, errors) ==
    [ret |-> ret, calls |-> cs, actions |-> actions, errors |-> errors,
     raised |-> FALSE]

Raise(cs) ==
    [ret |-> FALSE, calls |-> cs, actions |-> <<>>, errors |-> <<>>, raised |-> TRUE]

\* main.py 105-106: position of the first owner of kind Deployment, 0 if none.
FirstDeployment(rs_owners) ==
    IF \E j \in 1..Len(rs_owners) : rs_owners[j].kind = "Deployment"
    THEN CHOOSE j \in 1..Len(rs_owners) :
            /\ rs_owners[j].kind = "Deployment"
            /\ \A k \in 1..(j - 1) : rs_owners[k].kind # "Deployment"
    ELSE 0

\* Mutant: the patch is sent to a fixed namespace instead of the pod's.
HealTarget_DefaultNamespace(deployment_name, namespace, dry, patchOk, h) ==
    IF dry
    THEN Outcome(TRUE, <<>>, <<<<"dry_run_restart", namespace, deployment_name>>>>, <<>>)
    ELSE LET p == restart_deployment(deployment_name, "default", patchOk, h)
         IN IF p.ret
            THEN Outcome(TRUE, p.calls, <<<<"restart", namespace, deployment_name>>>>, <<>>)
            ELSE Outcome(FALSE, p.calls, <<>>, <<"patch_failed">>)

\* Mutant: a failed patch is counted as a restart too.
HealTarget_CountsFailedPatch(deployment_name, namespace, dry, patchOk, h) ==
    IF dry
    THEN Outcome(TRUE, <<>>, <<<<"dry_run_restart", namespace, deployment_name>>>>, <<>>)
    ELSE LET p == restart_deployment(deployment_name, namespace, patchOk, h)
         IN IF p.ret
            THEN Outcome(TRUE, p.calls, <<<<"restart", namespace, deployment_name>>>>, <<>>)
            ELSE Outcome(FALSE, p.calls, <<<<"restart", namespace, deployment_name>>>>,
                         <<"patch_failed">>)

\* Mutant: a failed patch is sent a second time.
HealTarget_RetryOnce(deployment_name, namespace, dry, patchOk, h) ==
    IF dry
    THEN Outcome(TRUE, <<>>, <<<<"dry_run_restart", namespace, deployment_name>>>>, <<>>)
    ELSE LET p == restart_deployment(deployment_name, namespace, patchOk, h)
         IN IF p.ret
            THEN Outcome(TRUE, p.calls, <<<<"restart", namespace, deployment_name>>>>, <<>>)
            ELSE Outcome(FALSE, p.calls \o p.calls, <<>>, <<"patch_failed">>)

\* Mutant: the dry-run gate is missing, the patch is always sent.
HealTarget_NoGate(deployment_name, namespace, dry, patchOk, h) ==
    LET p == restart_deployment(deployment_name, namespace, patchOk, h)
    IN IF p.ret
       THEN Outcome(TRUE, p.calls, <<<<"restart", namespace, deployment_name>>>>, <<>>)
       ELSE Outcome(FALSE, p.calls, <<>>, <<"patch_failed">>)

\* Mutant: a dry run is counted under the type of a real restart.
HealTarget_DryCountedAsRestart(deployment_name, namespace, dry, patchOk, h) ==
    IF dry
    THEN Outcome(TRUE, <<>>, <<<<"restart", namespace, deployment_name>>>>, <<>>)
    ELSE LET p == restart_deployment(deployment_name, namespace, patchOk, h)
         IN IF p.ret
            THEN Outcome(TRUE, p.calls, <<<<"restart", namespace, deployment_name>>>>, <<>>)
            ELSE Outcome(FALSE, p.calls, <<>>, <<"patch_failed">>)

\* main.py 107-132: the dry-run gate, then the patch and its counters.
HealTarget(deployment_name, namespace, dry, patchOk, h) ==
    IF dry
    THEN Outcome(TRUE, <<>>, <<<<"dry_run_restart", namespace, deployment_name>>>>, <<>>)
    ELSE LET p == restart_deployment(deployment_name, namespace, patchOk, h)
         IN IF p.raised THEN Raise(p.calls)
            ELSE IF p.ret
            THEN Outcome(TRUE, p.calls, <<<<"restart", namespace, deployment_name>>>>, <<>>)
            ELSE Outcome(FALSE, p.calls, <<>>, <<"patch_failed">>)

RECURSIVE OwnerLoop(_, _, _, _, _, _, _)

\* Mutant: the search gives up at the first ReplicaSet that has no Deployment owner.
OwnerLoop_GivesUpEarly(owners, i, namespace, dry, rsResp, patchOk, h) ==
    IF i > Len(owners) THEN Outcome(FALSE, <<>>, <<>>, <<>>)
    ELSE IF owners[i].kind # "ReplicaSet"
    THEN OwnerLoop(owners, i + 1, namespace, dry, rsResp, patchOk, h)
    ELSE LET readRs == Call("read_namespaced_replica_set", owners[i].name, namespace,
                            rsResp[i], h)
         IN IF ~rsResp[i].ok
            THEN Raise(<<readRs>>)
            ELSE LET d == FirstDeployment(rsResp[i].value)
                     r == IF d = 0
                          THEN Outcome(FALSE, <<>>, <<>>, <<>>)
                          ELSE HealTarget(rsResp[i].value[d].name, namespace, dry,
                                          patchOk, h)
                 IN [r EXCEPT !.calls = <<readRs>> \o @]

\* Mutant: every owner reference is read as a ReplicaSet, whatever its kind.
OwnerLoop_AnyKind(owners, i, namespace, dry, rsResp, patchOk, h) ==
    IF i > Len(owners) THEN Outcome(FALSE, <<>>, <<>>, <<>>)
    ELSE LET readRs == Call("read_namespaced_replica_set", owners[i].name, namespace,
                            rsResp[i], h)
         IN IF ~rsResp[i].ok
            THEN Raise(<<readRs>>)
            ELSE LET d == FirstDeployment(rsResp[i].value)
                     r == IF d = 0
                          THEN OwnerLoop(owners, i + 1, namespace, dry, rsResp, patchOk, h)
                          ELSE HealTarget(rsResp[i].value[d].name, namespace, dry,
                                          patchOk, h)
                 IN [r EXCEPT !.calls = <<readRs>> \o @]

\* main.py 97-135: the loop over the pod's owner references, from owner i on.
OwnerLoop(owners, i, namespace, dry, rsResp, patchOk, h) ==
    IF i > Len(owners) THEN Outcome(FALSE, <<>>, <<>>, <<>>)
    ELSE IF owners[i].kind # "ReplicaSet"
    THEN OwnerLoop(owners, i + 1, namespace, dry, rsResp, patchOk, h)
    ELSE LET readRs == Call("read_namespaced_replica_set", owners[i].name, namespace,
                            rsResp[i], h)
         IN IF ~rsResp[i].ok
            THEN Raise(<<readRs>>)
            ELSE LET d == FirstDeployment(rsResp[i].value)
                     r == IF d = 0
                          THEN OwnerLoop(owners, i + 1, namespace, dry, rsResp, patchOk, h)
                          ELSE HealTarget(rsResp[i].value[d].name, namespace, dry,
                                          patchOk, h)
                 IN [r EXCEPT !.calls = <<readRs>> \o @]

\* Mutant: a pod without owner references is reported as healed.
ResolveOwners_NoOwnerHealed(pod_info, dry, podResp, rsResp, patchOk, h) ==
    LET namespace == pod_info.namespace
        readPod == Call("read_namespaced_pod", pod_info.name, namespace, podResp, h)
    IN IF ~podResp.ok
       THEN Raise(<<readPod>>)
       ELSE IF podResp.value = <<>>
       THEN Outcome(TRUE, <<readPod>>, <<>>, <<>>)
       ELSE LET r == OwnerLoop(podResp.value, 1, namespace, dry, rsResp, patchOk, h)
            IN [r EXCEPT !.calls = <<readPod>> \o @]

\* main.py 91-95: the pod read and the check of its owner references.
ResolveOwners(pod_info, dry, podResp, rsResp, patchOk, h) ==
    LET namespace == pod_info.namespace
        pod_name == pod_info.name
        readPod == Call("read_namespaced_pod", pod_name, namespace, podResp, h)
    IN IF ~podResp.ok
       THEN Raise(<<readPod>>)
       ELSE IF podResp.value = <<>>
       THEN Outcome(FALSE, <<readPod>>, <<>>, <<>>)
       ELSE LET r == OwnerLoop(podResp.value, 1, namespace, dry, rsResp, patchOk, h)
            IN [r EXCEPT !.calls = <<readPod>> \o @]

\* Mutant: the except clause is missing, the ApiException leaves heal_deployment.
CatchApiException_Missing(r) == r

\* Mutant: an ApiException of the body is not counted.
CatchApiException_Uncounted(r) ==
    IF r.raised THEN [r EXCEPT !.raised = FALSE, !.ret = FALSE] ELSE r

\* Mutant: a remediation that met an ApiException is reported as healed.
CatchApiException_Healed(r) ==
    IF r.raised
    THEN [r EXCEPT !.raised = FALSE, !.ret = TRUE, !.errors = @ \o <<"api_error">>]
    ELSE r

\* main.py 137-140: an ApiException of the body is counted and becomes False.
CatchApiException(r) ==
    IF r.raised
    THEN [r EXCEPT !.raised = FALSE, !.ret = FALSE, !.errors = @ \o <<"api_error">>]
    ELSE r

\* main.py 85-140.  podResp answers the pod read, rsResp[i] the ReplicaSet read
\* made for the pod's i-th owner, patchOk the patch; h numbers the invocation.
heal_deployment(pod_info, dry, podResp, rsResp, patchOk, h) ==
    CatchApiException(ResolveOwners(pod_info, dry, podResp, rsResp, patchOk, h))

NoPod == [container_statuses |-> <<>>]
NoResult == [fn |-> "", ok |-> TRUE, value |-> 0]
NoReport == [log |-> <<>>, summary |-> <<>>]
NoNamespace == [pods |-> <<>>, deployments |-> <<>>]
NoCluster == [pods |-> <<>>, deployment |-> ""]

(* --------------------------- healing cycle ---------------------------- *)
InitConfig ==
    /\ dry_run \in BOOLEAN
    /\ restart_threshold \in Thresholds

InitCounters ==
    /\ HEAL_ACTIONS = [l \in ActionLabels |-> 0]
    /\ HEAL_ERRORS = [e \in ErrorTypes |-> 0]
    /\ UNHEALTHY_PODS = 0

Init ==
    /\ mode = "cycle"
    /\ clock = 0
    /\ InitConfig
    /\ InitCounters
    /\ pc = "scan"
    /\ ns_i = 1
    /\ unhealthy_pods = <<>>
    /\ cur = <<1, 1>>
    /\ healed_count = 0
    /\ status = ""
    /\ calls = <<>>
    /\ heal_log = <<>>
    /\ the_pod = NoPod
    /\ result = NoResult
    /\ report = NoReport
    /\ cluster = NoCluster
    /\ cycles = <<>>
    /\ the_namespace = NoNamespace

\* Mutant: a namespace that cannot be listed ends the scan.
NextNamespace_AbortOnError(ok, i) == IF ok THEN i + 1 ELSE Len(Namespaces) + 1

\* Mutant: a namespace whose list failed is listed again.
NextNamespace_RetryFailed(ok, i) == IF ok THEN i + 1 ELSE i

\* main.py 56, 79-81: the loop goes on to the next namespace, also after the
\* except clause.
NextNamespace(ok, i) == i + 1

\* main.py 56-81: one iteration of the loop over the namespaces.
ListNamespace ==
    /\ mode = "cycle" /\ pc = "scan" /\ ns_i <= Len(Namespaces)
    /\ \E resp \in ListResponses :
        LET namespace == Namespaces[ns_i]
            unhealthy == UnhealthyOf(resp.value, namespace, restart_threshold)
        IN /\ calls' = Append(calls, Call("list_namespaced_pod", "", namespace, resp, 0))
           /\ IF resp.ok
              THEN /\ unhealthy_pods' =
                        IF unhealthy # <<>>
                        THEN Append(unhealthy_pods,
                                    [namespace |-> namespace, pods |-> unhealthy])
                        ELSE unhealthy_pods
                   /\ UNCHANGED HEAL_ERRORS
              ELSE /\ HEAL_ERRORS' = [HEAL_ERRORS EXCEPT !["api_error"] = @ + 1]
                   /\ UNCHANGED unhealthy_pods
           /\ ns_i' = NextNamespace(resp.ok, ns_i)
    /\ UNCHANGED <<clock, cluster, cycles, the_namespace, report, the_pod, result, mode, dry_run, restart_threshold, pc, cur, healed_count, status,
                   HEAL_ACTIONS, UNHEALTHY_PODS, heal_log>>

RECURSIVE TotalUnhealthy(_)
TotalUnhealthy(entries) ==
    IF entries = <<>> THEN 0
    ELSE Len(Head(entries).pods) + TotalUnhealthy(Tail(entries))

\* A line of the cycle's log is added to the report.
Log(rep, line) == [rep EXCEPT !.log = Append(@, line)]

\* main.py 83, 147-158: the scan returns; gauge, early return when nothing found.
FinishScan ==
    /\ mode = "cycle" /\ pc = "scan" /\ ns_i > Len(Namespaces)
    /\ UNHEALTHY_PODS' = TotalUnhealthy(unhealthy_pods)
    /\ pc' = IF unhealthy_pods = <<>> THEN "returned" ELSE "remediate"
    /\ report' = Log(report,
                     IF unhealthy_pods = <<>>
                     THEN [msg |-> "No unhealthy pods found"]
                     ELSE [msg |-> "Found unhealthy pods",
                           total_unhealthy |-> TotalUnhealthy(unhealthy_pods),
                           namespaces |-> Len(unhealthy_pods)])
    /\ UNCHANGED <<clock, cluster, cycles, the_namespace, the_pod, result, mode, dry_run, restart_threshold, ns_i, unhealthy_pods, cur,
                   healed_count, status, HEAL_ACTIONS, HEAL_ERRORS, calls, heal_log>>

\* Mutant: the loops end with the last record of the current namespace.
NextRecord_StopsAtNamespaceEnd(entries, pos) ==
    IF pos[2] < Len(entries[pos[1]].pods) THEN <<pos[1], pos[2] + 1>> ELSE <<0, 0>>

\* main.py 159-160: the position after <<e, r>> in the nested loops, <<0, 0>> at the end.
NextRecord(entries, pos) ==
    IF pos[2] < Len(entries[pos[1]].pods) THEN <<pos[1], pos[2] + 1>>
    ELSE IF pos[1] < Len(entries) THEN <<pos[1] + 1, 1>>
    ELSE <<0, 0>>

\* Mutant: the delay is taken after every record, healed or not.
AfterHeal_Always(ret, h) == <<Sleep(h)>>

\* main.py 166-168: count and throttle after a successful remediation.
AfterHeal(ret, h) == IF ret THEN <<Sleep(h)>> ELSE <<>>

\* Mutant: every record counts as healed.
Healed_CountsAll(count, ret) == count + 1

\* main.py 166-167: healed_count after a remediation that returned ret.
Healed(count, ret) == IF ret THEN count + 1 ELSE count

\* main.py 172-174: whether an Exception raised inside run_healing_cycle leaves
\* it; the handler logs and counts it and the method returns normally.
CatchCycleError(raised) == FALSE

\* main.py 200-205: the status main gives the run.
JobStatus(raised) == IF raised THEN "FAILURE" ELSE "SUCCESS"

\* main.py 160-168: one iteration of the loop over the unhealthy records;
\* main.py 172-174 when heal_deployment raises.
HealRecord ==
    /\ mode = "cycle" /\ pc = "remediate"
    /\ \E podResp \in OwnerResponses(CyclePodOwnerRefs, MaxCycleOwners),
          rsResp \in [1..MaxCycleOwners -> OwnerResponses(RsOwnerRefs, MaxCycleOwners)],
          patchOk \in BOOLEAN :
        LET pod_info == unhealthy_pods[cur[1]].pods[cur[2]]
            h == Len(heal_log) + 1
            r == heal_deployment(pod_info, dry_run, podResp, rsResp, patchOk, h)
        IN /\ calls' = calls \o r.calls \o AfterHeal(r.ret, h)
           /\ healed_count' = Healed(healed_count, r.ret)
           /\ HEAL_ACTIONS' = IncAll(HEAL_ACTIONS, r.actions)
           /\ HEAL_ERRORS' = IncAll(HEAL_ERRORS,
                                    r.errors \o IF r.raised THEN <<"cycle_error">> ELSE <<>>)
           /\ heal_log' = Append(heal_log, [pod_info |-> pod_info, ret |-> r.ret,
                                            raised |-> r.raised])
           /\ cur' = IF r.raised THEN <<0, 0>> ELSE NextRecord(unhealthy_pods, cur)
           /\ pc' = IF r.raised
                    THEN (IF CatchCycleError(TRUE) THEN "raised" ELSE "returned")
                    ELSE IF cur' = <<0, 0>> THEN "report" ELSE "remediate"
           /\ report' =
                LET line == [msg |-> "Pod has restarts", name |-> pod_info.name,
                             namespace |-> unhealthy_pods[cur[1]].namespace,
                             restart_count |-> pod_info.restart_count]
                IN IF r.raised
                   THEN Log(Log(report, line), [msg |-> "Healing cycle failed"])
                   ELSE Log(report, line)
    /\ UNCHANGED <<clock, cluster, cycles, the_namespace, the_pod, result, mode, dry_run, restart_threshold, ns_i, unhealthy_pods, status,
                   UNHEALTHY_PODS>>

\* main.py 170: the cycle logs its healed total and returns.
CompleteCycle ==
    /\ mode = "cycle" /\ pc = "report"
    /\ pc' = "returned"
    /\ report' = Log(report, [msg |-> "Healing cycle completed", healed |-> healed_count])
    /\ UNCHANGED <<clock, cluster, cycles, the_namespace, the_pod, result, mode, dry_run, restart_threshold, ns_i, unhealthy_pods, cur,
                   healed_count, status, HEAL_ACTIONS, HEAL_ERRORS, UNHEALTHY_PODS,
                   calls, heal_log>>

\* main.py 147-156, 172-174: an Exception is raised between the scan and the
\* loop over the records, before or after the gauge is set.
CycleError ==
    /\ mode = "cycle" /\ pc = "scan" /\ ns_i > Len(Namespaces)
    /\ \E gaugeSet \in BOOLEAN :
        UNHEALTHY_PODS' = IF gaugeSet THEN TotalUnhealthy(unhealthy_pods)
                          ELSE UNHEALTHY_PODS
    /\ HEAL_ERRORS' = [HEAL_ERRORS EXCEPT !["cycle_error"] = @ + 1]
    /\ report' = Log(report, [msg |-> "Healing cycle failed"])
    /\ pc' = IF CatchCycleError(TRUE) THEN "raised" ELSE "returned"
    /\ UNCHANGED <<clock, cluster, cycles, the_namespace, the_pod, result, mode, dry_run, restart_threshold, ns_i,
                   unhealthy_pods, cur, healed_count, status, HEAL_ACTIONS, calls,
                   heal_log>>

\* Mutant: the job fails when an error counter is not zero.
MainSummary_FailsOnErrors ==
    /\ mode = "cycle" /\ pc \in {"returned", "raised"}
    /\ status' = IF \E e \in ErrorTypes : HEAL_ERRORS[e] > 0 THEN "FAILURE" ELSE "SUCCESS"
    /\ pc' = "done"
    /\ report' = [report EXCEPT !.summary =
                    [job |-> "auto-healer", status |-> status',
                     restart_threshold |-> restart_threshold, dry_run |-> dry_run]]
    /\ UNCHANGED <<clock, cluster, cycles, the_namespace, the_pod, result, mode, dry_run, restart_threshold, ns_i,
                   unhealthy_pods, cur, healed_count, HEAL_ACTIONS, HEAL_ERRORS,
                   UNHEALTHY_PODS, calls, heal_log>>

\* main.py 200-224: main after run_healing_cycle: the status and the job
\* summary (its timestamps and duration are not modelled).
MainSummary ==
    /\ mode = "cycle" /\ pc \in {"returned", "raised"}
    /\ status' = JobStatus(pc = "raised")
    /\ pc' = "done"
    /\ report' = [report EXCEPT !.summary =
                    [job |-> "auto-healer", status |-> status',
                     restart_threshold |-> restart_threshold, dry_run |-> dry_run]]
    /\ UNCHANGED <<clock, cluster, cycles, the_namespace, the_pod, result, mode, dry_run, restart_threshold, ns_i, unhealthy_pods, cur,
                   healed_count, HEAL_ACTIONS, HEAL_ERRORS, UNHEALTHY_PODS, calls,
                   heal_log>>

Next ==
    \/ ListNamespace
    \/ FinishScan
    \/ CycleError
    \/ HealRecord
    \/ CompleteCycle
    \/ MainSummary

Spec == Init /\ [][Next]_vars

\* main.py 142-174, 193-224: the cycle is straight-line code of one thread, so
\* a step that can be taken is taken: each call to the cluster returns or
\* raises, and the statement after it runs.
FairSpec == Init /\ [][Next]_vars /\ WF_vars(Next)

(* ------------- heal_deployment called for arbitrary pods -------------- *)
DefaultThreshold == 3

PodInfos ==
    [name : {PodNames[1]}, namespace : {Namespaces[i] : i \in 1..Len(Namespaces)},
     restart_count : {DefaultThreshold}, container : {ContainerNames[1]}]

\* Positions of the owners for which heal_deployment may read a ReplicaSet.
RsPositions(owners) == {i \in 1..Len(owners) : owners[i].kind = "ReplicaSet"}

InitHeal ==
    /\ mode = "heal"
    /\ clock = 0
    /\ dry_run \in BOOLEAN
    /\ restart_threshold = DefaultThreshold
    /\ InitCounters
    /\ pc = "idle"
    /\ ns_i = 1
    /\ unhealthy_pods = <<>>
    /\ cur = <<0, 0>>
    /\ healed_count = 0
    /\ status = ""
    /\ calls = <<>>
    /\ heal_log = <<>>
    /\ the_pod = NoPod
    /\ result = NoResult
    /\ report = NoReport
    /\ cluster = NoCluster
    /\ cycles = <<>>
    /\ the_namespace = NoNamespace

\* main.py 85-140: one invocation of heal_deployment.
HealCall ==
    /\ mode = "heal" /\ Len(heal_log) < MaxHeals
    /\ \E pod_info \in PodInfos, podResp \in OwnerResponses(PodOwnerRefs, MaxOwners),
          patchOk \in BOOLEAN :
        \E rsResp \in [RsPositions(podResp.value) -> OwnerResponses(RsOwnerRefs, MaxOwners)] :
            LET h == Len(heal_log) + 1
                r == heal_deployment(pod_info, dry_run, podResp, rsResp, patchOk, h)
            IN /\ calls' = calls \o r.calls
               /\ HEAL_ACTIONS' = IncAll(HEAL_ACTIONS, r.actions)
               /\ HEAL_ERRORS' = IncAll(HEAL_ERRORS, r.errors)
               /\ heal_log' = Append(heal_log, [pod_info |-> pod_info, ret |-> r.ret,
                                                raised |-> r.raised])
    /\ UNCHANGED <<clock, cluster, cycles, the_namespace, report, the_pod, result, mode, dry_run, restart_threshold, pc, ns_i,
                   unhealthy_pods, cur, healed_count, status, UNHEALTHY_PODS>>

\* healer.py 105-135: one call of DeploymentPatcher.restart_deployment.
RestartCall ==
    /\ mode = "heal" /\ result.fn = ""
    /\ \E deployment_name \in DeploymentNames, i \in 1..Len(Namespaces),
          patchOk \in BOOLEAN :
        LET r == restart_deployment(deployment_name, Namespaces[i], patchOk, 0)
        IN /\ calls' = calls \o r.calls
           /\ result' = [fn |-> "restart_deployment", ok |-> ~r.raised, value |-> r.ret]
    /\ UNCHANGED <<clock, cluster, cycles, the_namespace, report, the_pod, mode, dry_run, restart_threshold, pc, ns_i, unhealthy_pods,
                   cur, healed_count, status, HEAL_ACTIONS, HEAL_ERRORS,
                   UNHEALTHY_PODS, heal_log>>

\* healer.py 171-191: one call of DeploymentPatcher.scale_deployment.
ScaleCall ==
    /\ mode = "heal" /\ result.fn = ""
    /\ \E deployment_name \in DeploymentNames, i \in 1..Len(Namespaces),
          replicas \in 0..MaxReplicas, patchOk \in BOOLEAN :
        LET r == scale_deployment(deployment_name, Namespaces[i], replicas, patchOk, 0)
        IN /\ calls' = calls \o r.calls
           /\ result' = [fn |-> "scale_deployment", ok |-> ~r.raised, value |-> r.ret]
    /\ UNCHANGED <<clock, cluster, cycles, the_namespace, report, the_pod, mode, dry_run, restart_threshold, pc, ns_i, unhealthy_pods,
                   cur, healed_count, status, HEAL_ACTIONS, HEAL_ERRORS,
                   UNHEALTHY_PODS, heal_log>>

NextHeal == HealCall \/ RestartCall \/ ScaleCall

SpecHeal == InitHeal /\ [][NextHeal]_vars

(* ------------------- PodRestartHealer (healer.py) --------------------- *)
\* Absent values (None) are <<>>, a present value n is <<n>>.
None == <<>>
Some(n) == <<n>>

\* The state of a container as the cluster reports it: absent, or an object
\* whose running, waiting and terminated parts are each absent or populated.
ContainerStates ==
    {None} \cup
    {Some(st) : st \in [running : {None, Some([started_at |-> "t0"])},
                        waiting : {None, Some([reason |-> "CrashLoopBackOff"])},
                        terminated : {None, Some([reason |-> "Error"])}]}

\* The containers a pod is read with. The code reads a container's state
\* apart from its restart count and readiness, so the state is varied for
\* ready containers without restarts, and the other two for containers
\* without a state.
InspectContainers ==
    [name : {ContainerNames[i] : i \in 1..MaxInspectContainers},
     restart_count : 0..MaxInspectRestart, ready : BOOLEAN, state : {None}]
        \cup [name : {ContainerNames[i] : i \in 1..MaxInspectContainers},
              restart_count : {0}, ready : {TRUE}, state : ContainerStates \ {None}]

InspectContainerLists ==
    {cs \in SeqsUpTo(InspectContainers, MaxInspectContainers) :
        \A i \in 1..Len(cs) : cs[i].name = ContainerNames[i]}

\* The response of read_namespaced_pod for the pod asked about.
ReadPod(readOk) == IF readOk THEN Returned(the_pod.container_statuses) ELSE ApiException

RECURSIVE RestartCountLoop(_, _, _)

\* Mutant: the restart counts of the containers are added up.
RestartCountLoop_Sum(container_statuses, i, max_restarts) ==
    IF i > Len(container_statuses) THEN max_restarts
    ELSE RestartCountLoop(container_statuses, i + 1,
                          max_restarts + container_statuses[i].restart_count)

\* healer.py 24-29: the loop keeping the largest restart count seen.
RestartCountLoop(container_statuses, i, max_restarts) ==
    IF i > Len(container_statuses) THEN max_restarts
    ELSE RestartCountLoop(container_statuses, i + 1,
                          IF container_statuses[i].restart_count > max_restarts
                          THEN container_statuses[i].restart_count
                          ELSE max_restarts)

\* healer.py 18-29: the try block; a failing read leaves it with the ApiException.
RestartCountBody(resp) ==
    IF ~resp.ok THEN [ret |-> 0, raised |-> TRUE]
    ELSE [ret |-> IF resp.value = <<>> THEN 0 ELSE RestartCountLoop(resp.value, 1, 0),
          raised |-> FALSE]

\* Mutant: the ApiException of the pod read is not caught.
CatchReadError_Missing(r) == r

\* healer.py 31-33: the ApiException is logged and 0 returned.
CatchReadError(r) == IF r.raised THEN [ret |-> 0, raised |-> FALSE] ELSE r

\* healer.py 16-33: the value returned, and whether the call raised instead.
get_pod_restart_count(resp) == CatchReadError(RestartCountBody(resp))

\* Mutant: a count equal to the threshold is still healthy.
is_pod_unhealthy_Strict(resp, threshold) ==
    LET restart_count == get_pod_restart_count(resp)
    IN [ret |-> restart_count.ret > threshold, raised |-> restart_count.raised]

\* healer.py 35-38: an exception of get_pod_restart_count would pass through.
is_pod_unhealthy(resp, threshold) ==
    LET restart_count == get_pod_restart_count(resp)
    IN [ret |-> restart_count.ret >= threshold, raised |-> restart_count.raised]

\* healer.py 55-87: the loop of the status over the containers, from i on;
\* acc carries all_ready, max_restarts and the containers listed so far.
\* Mutant: a terminated part wins over waiting, and waiting over running.
StateInfo_TerminatedFirst(container, container_info) ==
    IF container.state = None THEN container_info
    ELSE LET state == container.state[1]
         IN IF state.terminated # None
            THEN container_info @@ [state |-> "terminated",
                                    reason |-> state.terminated[1].reason]
            ELSE IF state.waiting # None
            THEN container_info @@ [state |-> "waiting",
                                    reason |-> state.waiting[1].reason]
            ELSE IF state.running # None
            THEN container_info @@ [state |-> "running",
                                    started_at |-> state.running[1].started_at]
            ELSE container_info

\* healer.py 67-76: the lifecycle state recorded for a container, and the
\* started_at or reason that goes with it; no key is added when the state or
\* all of its three parts are absent.
StateInfo(container, container_info) ==
    IF container.state = None THEN container_info
    ELSE LET state == container.state[1]
         IN IF state.running # None
            THEN container_info @@ [state |-> "running",
                                    started_at |-> state.running[1].started_at]
            ELSE IF state.waiting # None
            THEN container_info @@ [state |-> "waiting",
                                    reason |-> state.waiting[1].reason]
            ELSE IF state.terminated # None
            THEN container_info @@ [state |-> "terminated",
                                    reason |-> state.terminated[1].reason]
            ELSE container_info

RECURSIVE StatusLoop(_, _, _)

\* Mutant: the pod is ready as soon as one container is ready.
StatusLoop_AnyReady(container_statuses, i, acc) ==
    IF i > Len(container_statuses) THEN acc
    ELSE LET container == container_statuses[i]
             container_info == StateInfo(container,
                                [name |-> container.name, ready |-> container.ready,
                                 restart_count |-> container.restart_count])
         IN StatusLoop(container_statuses, i + 1,
                [all_ready |-> (i > 1 /\ acc.all_ready) \/ container.ready,
                 max_restarts |-> IF container.restart_count > acc.max_restarts
                                  THEN container.restart_count ELSE acc.max_restarts,
                 containers |-> Append(acc.containers, container_info)])

StatusLoop(container_statuses, i, acc) ==
    IF i > Len(container_statuses) THEN acc
    ELSE LET container == container_statuses[i]
             container_info == StateInfo(container,
                                [name |-> container.name, ready |-> container.ready,
                                 restart_count |-> container.restart_count])
         IN StatusLoop(container_statuses, i + 1,
                [all_ready |-> acc.all_ready /\ container.ready,
                 max_restarts |-> IF container.restart_count > acc.max_restarts
                                  THEN container.restart_count ELSE acc.max_restarts,
                 containers |-> Append(acc.containers, container_info)])

\* healer.py 40-97; the error dict has no ready, restart_count or containers.
get_pod_health_status(pod_name, namespace, resp) ==
    IF ~resp.ok
    THEN [name |-> pod_name, namespace |-> namespace, error |-> "ApiException"]
    ELSE IF resp.value = <<>>
    THEN [name |-> pod_name, namespace |-> namespace, ready |-> FALSE,
          restart_count |-> 0, containers |-> <<>>]
    ELSE LET acc == StatusLoop(resp.value, 1,
                        [all_ready |-> TRUE, max_restarts |-> 0, containers |-> <<>>])
         IN [name |-> pod_name, namespace |-> namespace, ready |-> acc.all_ready,
             restart_count |-> acc.max_restarts, containers |-> acc.containers]

InitInspect ==
    /\ mode = "inspect"
    /\ clock = 0
    /\ dry_run = FALSE
    /\ restart_threshold \in 0..MaxInspectThreshold
    /\ InitCounters
    /\ pc = "idle"
    /\ ns_i = 1
    /\ unhealthy_pods = <<>>
    /\ cur = <<0, 0>>
    /\ healed_count = 0
    /\ status = ""
    /\ calls = <<>>
    /\ heal_log = <<>>
    /\ the_pod \in [container_statuses : InspectContainerLists]
    /\ result = NoResult
    /\ report = NoReport
    /\ cluster = NoCluster
    /\ cycles = <<>>
    /\ the_namespace = NoNamespace

InspectFrame ==
    UNCHANGED <<clock, cluster, cycles, the_namespace, report, the_pod, mode, dry_run, restart_threshold, pc, ns_i, unhealthy_pods, cur,
                healed_count, status, HEAL_ACTIONS, HEAL_ERRORS, UNHEALTHY_PODS, calls,
                heal_log>>

GetPodRestartCount ==
    /\ mode = "inspect"
    /\ \E readOk \in BOOLEAN :
        LET r == get_pod_restart_count(ReadPod(readOk))
        IN result' = [fn |-> "get_pod_restart_count", ok |-> readOk,
                      value |-> r.ret, raised |-> r.raised]
    /\ InspectFrame

IsPodUnhealthy ==
    /\ mode = "inspect"
    /\ \E readOk \in BOOLEAN :
        LET r == is_pod_unhealthy(ReadPod(readOk), restart_threshold)
        IN result' = [fn |-> "is_pod_unhealthy", ok |-> readOk,
                      value |-> r.ret, raised |-> r.raised]
    /\ InspectFrame

GetPodHealthStatus ==
    /\ mode = "inspect"
    /\ \E readOk \in BOOLEAN :
        result' = [fn |-> "get_pod_health_status", ok |-> readOk,
                   value |-> get_pod_health_status(PodNames[1], Namespaces[1],
                                                   ReadPod(readOk))]
    /\ InspectFrame

NextInspect ==
    \/ GetPodRestartCount
    \/ IsPodUnhealthy
    \/ GetPodHealthStatus

SpecInspect == InitInspect /\ [][NextInspect]_vars

(* ---------------- NamespaceHealthChecker (healer.py) ------------------ *)
\* Pod phases: the three the summary has a bucket for and one it has none for.
Phases == {"Running", "Pending", "Failed", "Succeeded"}

\* healer.py 223: the restart count from which the summary calls a pod unhealthy.
SummaryThreshold == 3

\* Python truth value of an optional number: None and 0 are false.
Truthy(x) == x # None /\ x[1] # 0

SummaryPods ==
    SeqsUpTo([phase : Phases,
              container_statuses :
                {cs \in SeqsUpTo([name : {ContainerNames[i] : i \in 1..MaxSummaryContainers},
                                  restart_count : 0..MaxSummaryRestart],
                                 MaxSummaryContainers) :
                    \A i \in 1..Len(cs) : cs[i].name = ContainerNames[i]}],
             MaxSummaryPods)

SummaryDeployments ==
    SeqsUpTo([replicas : 0..MaxReplicas,
              ready_replicas : {None} \cup {Some(n) : n \in 0..MaxReplicas}],
             MaxSummaryDeployments)

\* healer.py 203-208: the summary before anything is counted.
EmptySummary(namespace) ==
    [namespace |-> namespace,
     pods |-> [total |-> 0, running |-> 0, pending |-> 0, failed |-> 0, unhealthy |-> 0],
     deployments |-> [total |-> 0, ready |-> 0],
     timestamp |-> Now]

\* healer.py 221-225: some container of the pod has restarted 3 times or more.
HasRestartedOften(pod) ==
    \E i \in 1..Len(pod.container_statuses) :
        pod.container_statuses[i].restart_count >= SummaryThreshold

\* healer.py 211-225: the loop over the pods; counts is summary['pods'].
RECURSIVE CountPods(_, _)

\* Mutant: a pod is counted as unhealthy once for each container at 3 or more.
CountPods_PerContainer(items, counts) ==
    IF items = <<>> THEN counts
    ELSE LET pod == Head(items)
             c1 == [counts EXCEPT !.total = @ + 1]
             c2 == IF pod.phase = "Running" THEN [c1 EXCEPT !.running = @ + 1]
                   ELSE IF pod.phase = "Pending" THEN [c1 EXCEPT !.pending = @ + 1]
                   ELSE IF pod.phase = "Failed" THEN [c1 EXCEPT !.failed = @ + 1]
                   ELSE c1
             c3 == [c2 EXCEPT !.unhealthy = @ + Cardinality(
                        {i \in 1..Len(pod.container_statuses) :
                            pod.container_statuses[i].restart_count >= SummaryThreshold})]
         IN CountPods(Tail(items), c3)

CountPods(items, counts) ==
    IF items = <<>> THEN counts
    ELSE LET pod == Head(items)
             c1 == [counts EXCEPT !.total = @ + 1]
             c2 == IF pod.phase = "Running" THEN [c1 EXCEPT !.running = @ + 1]
                   ELSE IF pod.phase = "Pending" THEN [c1 EXCEPT !.pending = @ + 1]
                   ELSE IF pod.phase = "Failed" THEN [c1 EXCEPT !.failed = @ + 1]
                   ELSE c1
             c3 == IF HasRestartedOften(pod) THEN [c2 EXCEPT !.unhealthy = @ + 1] ELSE c2
         IN CountPods(Tail(items), c3)

\* healer.py 231-232: the condition under which a deployment counts as ready.
DeploymentReady(deployment) ==
    /\ Truthy(deployment.ready_replicas)
    /\ deployment.ready_replicas[1] = deployment.replicas

\* healer.py 228-233: the loop over the deployments; counts is summary['deployments'].
RECURSIVE CountDeployments(_, _)
CountDeployments(items, counts) ==
    IF items = <<>> THEN counts
    ELSE LET c1 == [counts EXCEPT !.total = @ + 1]
             c2 == IF DeploymentReady(Head(items)) THEN [c1 EXCEPT !.ready = @ + 1] ELSE c1
         IN CountDeployments(Tail(items), c2)

\* healer.py 239-243: the result when a list call raised ApiException.
ErrorSummary(namespace) ==
    [namespace |-> namespace, error |-> "ApiException", timestamp |-> Now]

\* healer.py 202-235: the try block; a failing list call leaves it with the
\* ApiException, the summary counted so far is then lost.
SummaryBody(namespace, podsResp, deploymentsResp) ==
    LET listPods == Call("list_namespaced_pod", "", namespace, podsResp, 0)
        listDeployments ==
            Call("list_namespaced_deployment", "", namespace, deploymentsResp, 0)
        summary == EmptySummary(namespace)
        counted == [summary EXCEPT !.pods = CountPods(podsResp.value, @)]
    IN IF ~podsResp.ok
       THEN [ret |-> summary, raised |-> TRUE, calls |-> <<listPods>>]
       ELSE IF ~deploymentsResp.ok
       THEN [ret |-> counted, raised |-> TRUE, calls |-> <<listPods, listDeployments>>]
       ELSE [ret |-> [counted EXCEPT
                        !.deployments = CountDeployments(deploymentsResp.value, @)],
             raised |-> FALSE,
             calls |-> <<listPods, listDeployments>>]

\* Mutant: the ApiException of a list call is not caught.
CatchSummaryError_Missing(r, namespace) == r

\* healer.py 237-243: the ApiException is logged and the error summary returned.
CatchSummaryError(r, namespace) ==
    IF r.raised
    THEN [ret |-> ErrorSummary(namespace), raised |-> FALSE, calls |-> r.calls]
    ELSE r

\* healer.py 200-243
get_namespace_health_summary(namespace, podsResp, deploymentsResp) ==
    CatchSummaryError(SummaryBody(namespace, podsResp, deploymentsResp), namespace)

InitSummary ==
    /\ mode = "summary"
    /\ clock = 0
    /\ dry_run = FALSE
    /\ restart_threshold = DefaultThreshold
    /\ InitCounters
    /\ pc = "idle"
    /\ ns_i = 1
    /\ unhealthy_pods = <<>>
    /\ cur = <<0, 0>>
    /\ healed_count = 0
    /\ status = ""
    /\ calls = <<>>
    /\ heal_log = <<>>
    /\ the_pod = NoPod
    /\ result = NoResult
    /\ report = NoReport
    /\ cluster = NoCluster
    /\ cycles = <<>>
    /\ the_namespace \in [pods : SummaryPods, deployments : SummaryDeployments]

\* healer.py 200-243: one call of get_namespace_health_summary.
GetNamespaceHealthSummary ==
    /\ mode = "summary" /\ result.fn = ""
    /\ \E i \in 1..Len(Namespaces), podsOk \in BOOLEAN, deploymentsOk \in BOOLEAN :
        LET r == get_namespace_health_summary(
                    Namespaces[i],
                    IF podsOk THEN Returned(the_namespace.pods) ELSE ApiException,
                    IF deploymentsOk THEN Returned(the_namespace.deployments)
                    ELSE ApiException)
        IN /\ result' = [fn |-> "get_namespace_health_summary", ok |-> ~r.raised,
                         value |-> r.ret]
           /\ calls' = calls \o r.calls
    /\ UNCHANGED <<clock, cluster, cycles, the_namespace, report, the_pod, mode, dry_run, restart_threshold, pc,
                   ns_i, unhealthy_pods, cur, healed_count, status, HEAL_ACTIONS,
                   HEAL_ERRORS, UNHEALTHY_PODS, heal_log>>

NextSummary == GetNamespaceHealthSummary

SpecSummary == InitSummary /\ [][NextSummary]_vars

(* ------------- several runs of main at the same time ------------------ *)
\* main.py 193-205 started MaxCycles times against one cluster.  Every run is
\* a process of its own with its own counters and its own history of calls;
\* the code takes no lock and no lease.  A patch is a blocking request: it is
\* in flight from the moment it is sent until the cluster has answered.
Cycles == 1..MaxCycles

\* The pod lists of the cluster's namespaces.
ClusterPodLists ==
    {ps \in PodLists :
        \A i \in 1..Len(ps) : Len(ps[i].container_statuses) <= MaxClusterContainers}

\* main.py 24-47, 144-158: a run before its scan.
NewCycle ==
    [pc |-> "scan", unhealthy_pods |-> <<>>, cur |-> <<0, 0>>, healed_count |-> 0,
     pending |-> <<>>, calls |-> <<>>, heal_log |-> <<>>,
     HEAL_ACTIONS |-> [l \in ActionLabels |-> 0],
     HEAL_ERRORS |-> [e \in ErrorTypes |-> 0],
     UNHEALTHY_PODS |-> 0]

InitConcurrent ==
    /\ mode = "concurrent"
    /\ clock = 0
    /\ InitConfig
    /\ InitCounters
    /\ pc = "idle"
    /\ ns_i = 1
    /\ unhealthy_pods = <<>>
    /\ cur = <<0, 0>>
    /\ healed_count = 0
    /\ status = ""
    /\ calls = <<>>
    /\ heal_log = <<>>
    /\ the_pod = NoPod
    /\ result = NoResult
    /\ report = NoReport
    /\ the_namespace = NoNamespace
    /\ cluster \in [pods : [1..Len(Namespaces) -> ClusterPodLists],
                    deployment : DeploymentNames]
    /\ cycles = [p \in Cycles |-> NewCycle]

\* main.py 56-83: the scan of the namespaces from number i on; oks[i] tells
\* whether the list of namespace i succeeded.
RECURSIVE ScanFrom(_, _)
ScanFrom(i, oks) ==
    IF i > Len(Namespaces) THEN [unhealthy_pods |-> <<>>, calls |-> <<>>, errors |-> <<>>]
    ELSE LET namespace == Namespaces[i]
             resp == IF oks[i] THEN Returned(cluster.pods[i]) ELSE ApiException
             unhealthy == UnhealthyOf(resp.value, namespace, restart_threshold)
             rest == ScanFrom(NextNamespace(oks[i], i), oks)
         IN [unhealthy_pods |->
                (IF oks[i] /\ unhealthy # <<>>
                 THEN <<[namespace |-> namespace, pods |-> unhealthy]>> ELSE <<>>)
                    \o rest.unhealthy_pods,
             calls |-> <<Call("list_namespaced_pod", "", namespace, resp, 0)>>
                            \o rest.calls,
             errors |-> (IF oks[i] THEN <<>> ELSE <<"api_error">>) \o rest.errors]

\* main.py 147-158: run p scans the cluster and sets its gauge.
ConcurrentScan(p) ==
    /\ mode = "concurrent" /\ cycles[p].pc = "scan"
    /\ \E oks \in [1..Len(Namespaces) -> BOOLEAN] :
        LET scan == ScanFrom(1, oks)
        IN cycles' = [cycles EXCEPT ![p] =
                [@ EXCEPT !.unhealthy_pods = scan.unhealthy_pods,
                          !.calls = scan.calls,
                          !.HEAL_ERRORS = IncAll(@, scan.errors),
                          !.UNHEALTHY_PODS = TotalUnhealthy(scan.unhealthy_pods),
                          !.cur = IF scan.unhealthy_pods = <<>> THEN <<0, 0>> ELSE <<1, 1>>,
                          !.pc = IF scan.unhealthy_pods = <<>> THEN "done"
                                 ELSE "remediate"]]
    /\ UNCHANGED <<clock, cluster, the_namespace, report, the_pod, result, mode, dry_run,
                   restart_threshold, pc, ns_i, unhealthy_pods, cur, healed_count,
                   status, HEAL_ACTIONS, HEAL_ERRORS, UNHEALTHY_PODS, calls, heal_log>>

\* main.py 165-168: run p takes the outcome r of heal_deployment and moves on.
AfterRemediation(c, r) ==
    LET next == IF r.raised THEN <<0, 0>> ELSE NextRecord(c.unhealthy_pods, c.cur)
    IN [c EXCEPT !.healed_count = Healed(@, r.ret),
                 !.calls = @ \o AfterHeal(r.ret, Len(c.heal_log)),
                 !.HEAL_ACTIONS = IncAll(@, r.actions),
                 !.HEAL_ERRORS = IncAll(@, r.errors \o IF r.raised THEN <<"cycle_error">>
                                                      ELSE <<>>),
                 !.pending = <<>>,
                 !.cur = next,
                 !.pc = IF next = <<0, 0>> THEN "done" ELSE "remediate"]

\* Whether the calls cs contain a patch.
SendsPatch(cs) == \E i \in 1..Len(cs) : cs[i].op = "patch_namespaced_deployment"

\* main.py 160-165, 91-120: run p resolves the owner of its next record and,
\* unless the remediation ends before, sends the patch.
ConcurrentHealBegin(p) ==
    /\ mode = "concurrent" /\ cycles[p].pc = "remediate"
    /\ \E podOk \in BOOLEAN, rsOk \in BOOLEAN, patchOk \in BOOLEAN :
        LET c == cycles[p]
            pod_info == c.unhealthy_pods[c.cur[1]].pods[c.cur[2]]
            podResp == IF podOk
                       THEN Returned(<<[kind |-> "ReplicaSet", name |-> "rs-1"]>>)
                       ELSE ApiException
            rsResp == [i \in 1..1 |->
                        IF rsOk
                        THEN Returned(<<[kind |-> "Deployment", name |-> cluster.deployment]>>)
                        ELSE ApiException]
            h == Len(c.heal_log) + 1
            r == heal_deployment(pod_info, dry_run, podResp, rsResp, patchOk, h)
            started == [c EXCEPT !.calls = @ \o r.calls,
                                 !.heal_log = Append(@, [pod_info |-> pod_info,
                                                         ret |-> r.ret,
                                                         raised |-> r.raised])]
        IN cycles' = [cycles EXCEPT ![p] =
                IF SendsPatch(r.calls)
                THEN [started EXCEPT !.pc = "patching", !.pending = <<r>>]
                ELSE AfterRemediation(started, r)]
    /\ UNCHANGED <<clock, cluster, the_namespace, report, the_pod, result, mode, dry_run,
                   restart_threshold, pc, ns_i, unhealthy_pods, cur, healed_count,
                   status, HEAL_ACTIONS, HEAL_ERRORS, UNHEALTHY_PODS, calls, heal_log>>

\* healer.py 124-135, main.py 122-132, 165-168: the cluster has answered the
\* patch of run p; the run counts the outcome, sleeps when healed and moves on.
ConcurrentHealEnd(p) ==
    /\ mode = "concurrent" /\ cycles[p].pc = "patching"
    /\ cycles' = [cycles EXCEPT ![p] = AfterRemediation(@, @.pending[1])]
    /\ UNCHANGED <<clock, cluster, the_namespace, report, the_pod, result, mode, dry_run,
                   restart_threshold, pc, ns_i, unhealthy_pods, cur, healed_count,
                   status, HEAL_ACTIONS, HEAL_ERRORS, UNHEALTHY_PODS, calls, heal_log>>

NextConcurrent ==
    \/ \E p \in Cycles : ConcurrentScan(p)
    \/ \E p \in Cycles : ConcurrentHealBegin(p)
    \/ \E p \in Cycles : ConcurrentHealEnd(p)

SpecConcurrent == InitConcurrent /\ [][NextConcurrent]_vars

(* ------------ restart patches applied by the cluster (healer.py) ------ *)
\* The annotations a Deployment or its pod template can carry: the three of
\* the restart patch and one that the patch does not name.
AnnotationKeys ==
    {"kubectl.kubernetes.io/restartedAt", "auto-healer/restarted-at",
     "auto-healer/reason", "team"}

TemplateAnnotation(k) == <<"spec", "template", "metadata", "annotations", k>>

\* The fields of a Deployment that the patches of DeploymentPatcher or the
\* objects patched can hold, as paths from the root.
Paths ==
    {<<"spec", "replicas">>}
        \cup {TemplateAnnotation(k) : k \in AnnotationKeys}
        \cup {<<"metadata", "annotations", k>> : k \in AnnotationKeys}

\* Whether a patch body holds a field, and the field's value.
RECURSIVE HasPath(_, _)
HasPath(body, path) ==
    \/ path = <<>>
    \/ /\ Head(path) \in DOMAIN body
       /\ HasPath(body[Head(path)], Tail(path))

RECURSIVE FieldAt(_, _)
FieldAt(body, path) ==
    IF path = <<>> THEN body ELSE FieldAt(body[Head(path)], Tail(path))

\* The fields that a patch body names, each with its value.
Fields(body) == [p \in {q \in Paths : HasPath(body, q)} |-> FieldAt(body, p)]

\* A merge patch applied to an object held as its fields: the fields the
\* patch names take the patch's values, every other field stays.
MergePatch(object, body) == Fields(body) @@ object

\* The pod template of a Deployment.
Template(object) ==
    [p \in {q \in DOMAIN object : Len(q) > 2 /\ q[2] = "template"} |-> object[p]]

\* The cluster after it accepted a patch: the object merged, and a new
\* rollout when the pod template changed.
Patched(c, body) ==
    LET merged == MergePatch(c.object, body)
    IN [object |-> merged,
        rollouts |-> IF Template(merged) # Template(c.object)
                     THEN c.rollouts + 1 ELSE c.rollouts]

\* The Deployment before the first patch: two replicas, with or without an
\* annotation of its own on the pod template, restarted before or not.
InitialObjects ==
    {(<<"spec", "replicas">> :> 2) @@ own @@ restarted :
        own \in {<<>>, TemplateAnnotation("team") :> "sre"},
        restarted \in {<<>>, TemplateAnnotation("kubectl.kubernetes.io/restartedAt") :> 0}}

InitPatch ==
    /\ mode = "patch"
    /\ clock = 0
    /\ dry_run = FALSE
    /\ restart_threshold = DefaultThreshold
    /\ InitCounters
    /\ pc = "idle"
    /\ ns_i = 1
    /\ unhealthy_pods = <<>>
    /\ cur = <<0, 0>>
    /\ healed_count = 0
    /\ status = ""
    /\ calls = <<>>
    /\ heal_log = <<>>
    /\ the_pod = NoPod
    /\ result = NoResult
    /\ report = NoReport
    /\ the_namespace = NoNamespace
    /\ cluster \in [object : InitialObjects, rollouts : {0}]
    /\ cycles = <<>>

\* Time passes between two calls.
Tick ==
    /\ mode = "patch" /\ clock < MaxClock
    /\ clock' = clock + 1
    /\ UNCHANGED <<cluster, cycles, the_namespace, report, the_pod, result, mode, dry_run,
                   restart_threshold, pc, ns_i, unhealthy_pods, cur, healed_count,
                   status, HEAL_ACTIONS, HEAL_ERRORS, UNHEALTHY_PODS, calls, heal_log>>

\* healer.py 105-135: restart_deployment patches the Deployment; the cluster
\* applies the patch it accepts.
PatchRestart ==
    /\ mode = "patch" /\ Len(calls) < MaxPatches
    /\ \E patchOk \in BOOLEAN :
        LET r == restart_deployment("app-1", Namespaces[1], patchOk, 0)
        IN /\ calls' = calls \o r.calls
           /\ result' = [fn |-> "restart_deployment", ok |-> ~r.raised, value |-> r.ret]
           /\ cluster' = IF patchOk THEN Patched(cluster, r.calls[1].body) ELSE cluster
    /\ UNCHANGED <<clock, cycles, the_namespace, report, the_pod, mode, dry_run,
                   restart_threshold, pc, ns_i, unhealthy_pods, cur, healed_count,
                   status, HEAL_ACTIONS, HEAL_ERRORS, UNHEALTHY_PODS, heal_log>>

NextPatch ==
    \/ Tick
    \/ PatchRestart

SpecPatch == InitPatch /\ [][NextPatch]_vars

(* ------------- a sequence of cycles in one process (main.py) ---------- *)
\* What the cluster can hold when a cycle starts.
Clusters(deployment) ==
    [pods : [1..Len(Namespaces) -> ClusterPodLists], deployment : {deployment}]

InitSequence ==
    /\ mode = "sequence"
    /\ clock = 0
    /\ InitConfig
    /\ InitCounters
    /\ pc = "idle"
    /\ ns_i = 1
    /\ unhealthy_pods = <<>>
    /\ cur = <<0, 0>>
    /\ healed_count = 0
    /\ status = ""
    /\ calls = <<>>
    /\ heal_log = <<>>
    /\ the_pod = NoPod
    /\ result = NoResult
    /\ report = NoReport
    /\ the_namespace = NoNamespace
    /\ \E deployment \in DeploymentNames : cluster \in Clusters(deployment)
    /\ cycles = <<NewCycle>>

\* The cycle that is running, or has run last.
Current == Len(cycles)

\* main.py 147-158: the running cycle scans the cluster and sets the gauge.
SequenceScan ==
    /\ mode = "sequence" /\ cycles[Current].pc = "scan"
    /\ \E oks \in [1..Len(Namespaces) -> BOOLEAN] :
        LET scan == ScanFrom(1, oks)
        IN cycles' = [cycles EXCEPT ![Current] =
                [@ EXCEPT !.unhealthy_pods = scan.unhealthy_pods,
                          !.calls = scan.calls,
                          !.HEAL_ERRORS = IncAll(@, scan.errors),
                          !.UNHEALTHY_PODS = TotalUnhealthy(scan.unhealthy_pods),
                          !.cur = IF scan.unhealthy_pods = <<>> THEN <<0, 0>> ELSE <<1, 1>>,
                          !.pc = IF scan.unhealthy_pods = <<>> THEN "done"
                                 ELSE "remediate"]]
    /\ UNCHANGED <<clock, cluster, the_namespace, report, the_pod, result, mode, dry_run,
                   restart_threshold, pc, ns_i, unhealthy_pods, cur, healed_count,
                   status, HEAL_ACTIONS, HEAL_ERRORS, UNHEALTHY_PODS, calls, heal_log>>

\* main.py 160-168: the running cycle remediates its next record.
SequenceHeal ==
    /\ mode = "sequence" /\ cycles[Current].pc = "remediate"
    /\ \E podOk \in BOOLEAN, rsOk \in BOOLEAN, patchOk \in BOOLEAN :
        LET c == cycles[Current]
            pod_info == c.unhealthy_pods[c.cur[1]].pods[c.cur[2]]
            podResp == IF podOk
                       THEN Returned(<<[kind |-> "ReplicaSet", name |-> "rs-1"]>>)
                       ELSE ApiException
            rsResp == [i \in 1..1 |->
                        IF rsOk
                        THEN Returned(<<[kind |-> "Deployment", name |-> cluster.deployment]>>)
                        ELSE ApiException]
            h == Len(c.heal_log) + 1
            r == heal_deployment(pod_info, dry_run, podResp, rsResp, patchOk, h)
            started == [c EXCEPT !.calls = @ \o r.calls,
                                 !.heal_log = Append(@, [pod_info |-> pod_info,
                                                         ret |-> r.ret,
                                                         raised |-> r.raised])]
        IN cycles' = [cycles EXCEPT ![Current] = AfterRemediation(started, r)]
    /\ UNCHANGED <<clock, cluster, the_namespace, report, the_pod, result, mode, dry_run,
                   restart_threshold, pc, ns_i, unhealthy_pods, cur, healed_count,
                   status, HEAL_ACTIONS, HEAL_ERRORS, UNHEALTHY_PODS, calls, heal_log>>

\* Mutant: the metrics start from zero in every cycle.
CarryOver_ResetsCounters(c) == NewCycle

\* main.py 20-22, 51, 144-160: what a cycle starts with after the cycle c of
\* the same process: the module-level metrics as c left them, and new locals.
CarryOver(c) ==
    [NewCycle EXCEPT !.HEAL_ACTIONS = c.HEAL_ACTIONS,
                     !.HEAL_ERRORS = c.HEAL_ERRORS,
                     !.UNHEALTHY_PODS = c.UNHEALTHY_PODS]

\* main.py 142: run_healing_cycle is invoked again; the cluster may have changed.
SequenceStart ==
    /\ mode = "sequence" /\ cycles[Current].pc = "done"
    /\ Len(cycles) < MaxSequenceCycles
    /\ cycles' = Append(cycles, CarryOver(cycles[Current]))
    /\ cluster' \in Clusters(cluster.deployment)
    /\ UNCHANGED <<clock, the_namespace, report, the_pod, result, mode, dry_run,
                   restart_threshold, pc, ns_i, unhealthy_pods, cur, healed_count,
                   status, HEAL_ACTIONS, HEAL_ERRORS, UNHEALTHY_PODS, calls, heal_log>>

NextSequence ==
    \/ SequenceScan
    \/ SequenceHeal
    \/ SequenceStart

SpecSequence == InitSequence /\ [][NextSequence]_vars

(* ======================== properties: the cycle ======================= *)
IsPatch(c) == c.op = "patch_namespaced_deployment"
IsRsRead(c) == c.op = "read_namespaced_replica_set"
IsPodRead(c) == c.op = "read_namespaced_pod"
IsSleep(c) == c.op = "sleep"

Finished == pc \in {"report", "returned", "done"}

\* The records of the scan result in the order of the dict and of its lists.
RECURSIVE Records(_)
Records(entries) ==
    IF entries = <<>> THEN <<>> ELSE Head(entries).pods \o Records(Tail(entries))

\* Positions in a call log of the calls of invocation h.
CallsOf(cs, h) == {i \in 1..Len(cs) : cs[i].heal = h}

\* Invocation h read a ReplicaSet whose owners include a Deployment.
Resolved(cs, h) ==
    \E i \in CallsOf(cs, h) :
        /\ IsRsRead(cs[i]) /\ cs[i].ok
        /\ \E j \in 1..Len(cs[i].value) : cs[i].value[j].kind = "Deployment"

\* The Deployment owners listed by the ReplicaSets that invocation h read.
DeploymentsSeen(cs, h) ==
    {cs[i].value[j].name : <<i, j>> \in
        {<<i, j>> \in CallsOf(cs, h) \X (1..MaxOwnersAny) :
            /\ IsRsRead(cs[i]) /\ cs[i].ok /\ j <= Len(cs[i].value)
            /\ cs[i].value[j].kind = "Deployment"}}

\* The step is one invocation of heal_deployment.
HealStep == Len(heal_log') = Len(heal_log) + 1

\* C1: with dry-run enabled no patch_namespaced_deployment call is ever issued,
\* whatever the pods, the owner chains and the API failures are.
C1_DryRunNeverPatches ==
    dry_run => \A i \in 1..Len(calls) : ~IsPatch(calls[i])

C1_Witness ==
    /\ dry_run /\ pc = "done"
    /\ \E h \in 1..Len(heal_log) : heal_log[h].ret /\ Resolved(calls, h)

\* C2: with dry-run enabled, remediating a pod that resolves to a Deployment
\* returns success and increments HEAL_ACTIONS of type dry_run_restart for the
\* pod's namespace and that deployment exactly once; the restart counter and
\* every error counter keep their values.
C2_DryRunCountedOnce ==
    [][(HealStep /\ dry_run /\ Resolved(calls', Len(heal_log')))
        => LET h == Len(heal_log')
               e == heal_log'[h]
           IN /\ e.ret
              /\ \E d \in DeploymentsSeen(calls', h) :
                    HEAL_ACTIONS' = [HEAL_ACTIONS EXCEPT
                        ![<<"dry_run_restart", e.pod_info.namespace, d>>] = @ + 1]
              /\ HEAL_ERRORS' = HEAL_ERRORS]_vars

C2_Witness ==
    /\ dry_run
    /\ \E h \in 1..Len(heal_log) :
        /\ heal_log[h].ret /\ Resolved(calls, h)
        /\ \E d \in DeploymentsSeen(calls, h) :
            HEAL_ACTIONS[<<"dry_run_restart", heal_log[h].pod_info.namespace, d>>] >= 1

\* C3: within one cycle heal_deployment is invoked at most once for every pod,
\* also when several containers of the pod reach the threshold.
C3_OneAttemptPerPod ==
    \A i, j \in 1..Len(heal_log) :
        (/\ heal_log[i].pod_info.name = heal_log[j].pod_info.name
         /\ heal_log[i].pod_info.namespace = heal_log[j].pod_info.namespace)
        => i = j

\* Invocation k met a read or patch error.
Failed(k) == \E i \in CallsOf(calls, k) : ~calls[i].ok

\* C4: a read or patch error on record k never blocks the batch: once the cycle
\* has finished, every record after k has been passed to heal_deployment, in
\* order.
C4_FailureDoesNotBlock ==
    \A k \in 1..Len(heal_log) :
        (Failed(k) /\ Finished)
        => \A j \in (k + 1)..Len(Records(unhealthy_pods)) :
              /\ j <= Len(heal_log)
              /\ heal_log[j].pod_info = Records(unhealthy_pods)[j]

C4_Witness ==
    /\ pc = "done" /\ Len(heal_log) >= 3
    /\ \E i \in CallsOf(calls, 1) : IsPatch(calls[i]) /\ ~calls[i].ok
    /\ \E i \in CallsOf(calls, 2) : IsPodRead(calls[i]) /\ ~calls[i].ok
    /\ heal_log[3].ret

\* C5: the inter-action delay occurs exactly once after each successful
\* remediation, after its last call and before the first call of the next
\* record; a skipped or failed remediation is followed by no delay.
C5_DelayAfterSuccessOnly ==
    \A h \in 1..Len(heal_log) :
        LET sleeps == {i \in CallsOf(calls, h) : IsSleep(calls[i])}
        IN /\ Cardinality(sleeps) = IF heal_log[h].ret THEN 1 ELSE 0
           /\ \A s \in sleeps : \A i \in 1..Len(calls) :
                /\ (calls[i].heal = h => i <= s)
                /\ (calls[i].heal > h => i > s)
           /\ \E i \in CallsOf(calls, h) : IsPodRead(calls[i])

C5_Witness ==
    /\ pc = "done" /\ Len(heal_log) >= 3
    /\ heal_log[1].ret /\ heal_log[2].ret /\ ~heal_log[3].ret
    /\ Cardinality({i \in 1..Len(calls) : IsSleep(calls[i])}) = 2

\* Invocation h read a pod that has no owner references.
NoOwner(cs, h) ==
    \E i \in CallsOf(cs, h) : IsPodRead(cs[i]) /\ cs[i].ok /\ cs[i].value = <<>>

\* C10: for a pod with no owner references heal_deployment returns False and
\* issues no ReplicaSet read and no patch; the record is not counted as healed.
C10_NoOwnerSkipped ==
    [][(HealStep /\ NoOwner(calls', Len(heal_log')))
        => LET h == Len(heal_log')
           IN /\ ~heal_log'[h].ret
              /\ \A i \in CallsOf(calls', h) : IsPodRead(calls'[i])
              /\ healed_count' = healed_count
              /\ HEAL_ACTIONS' = HEAL_ACTIONS]_vars

C10_Witness ==
    /\ pc = "done"
    /\ \E h \in 1..Len(heal_log) : NoOwner(calls, h) /\ ~heal_log[h].ret

\* How many calls with one of the operations ops the cluster rejected.
FailedCalls(ops) == Cardinality({i \in 1..Len(calls) : calls[i].op \in ops /\ ~calls[i].ok})

ReadOps == {"list_namespaced_pod", "read_namespaced_pod", "read_namespaced_replica_set"}
PatchOps == {"patch_namespaced_deployment"}

NoCycleError == HEAL_ERRORS["cycle_error"] = 0

\* C15: whatever namespace lists, pod or ReplicaSet reads and patches fail in
\* a cycle, the job summary reports SUCCESS; the failures show only in the
\* error counters: api_error counts the failed lists and reads, patch_failed
\* the rejected patches, and no remediation raises.
C15_PartialFailuresKeepSuccess ==
    /\ (pc = "done" /\ NoCycleError)
        => (status = "SUCCESS" /\ report.summary.status = "SUCCESS")
    /\ HEAL_ERRORS["api_error"] = FailedCalls(ReadOps)
    /\ HEAL_ERRORS["patch_failed"] = FailedCalls(PatchOps)
    /\ \A h \in 1..Len(heal_log) : ~heal_log[h].raised

\* A cycle with a failed list, a failed pod read and a rejected patch ended
\* with status SUCCESS.
C15_Witness ==
    /\ pc = "done" /\ status = "SUCCESS"
    /\ FailedCalls({"list_namespaced_pod"}) = 1
    /\ FailedCalls({"read_namespaced_pod"}) = 1
    /\ FailedCalls(PatchOps) = 1
    /\ HEAL_ERRORS = [e \in ErrorTypes |->
                        IF e = "api_error" THEN 2 ELSE IF e = "patch_failed" THEN 1 ELSE 0]

\* C16: when an error occurs in the cycle outside the loops over namespaces
\* and records, the job summary reports status FAILURE.
C16_FatalErrorReportsFailure ==
    (pc = "done" /\ ~NoCycleError) => status = "FAILURE"

\* The list calls of the scan, in call order.
ListCalls == SelectSeq(calls, LAMBDA c : c.op = "list_namespaced_pod")

\* The dict that a scan with the list responses ls builds.
RECURSIVE Collected(_)
Collected(ls) ==
    IF ls = <<>> THEN <<>>
    ELSE LET c == Head(ls)
             found == UnhealthyOf(c.value, c.namespace, restart_threshold)
         IN (IF c.ok /\ found # <<>>
             THEN <<[namespace |-> c.namespace, pods |-> found]>>
             ELSE <<>>) \o Collected(Tail(ls))

ScanOver == pc # "scan" \/ ns_i > Len(Namespaces)

\* C17: a failed list of one namespace does not end the scan: every
\* configured namespace is listed once, in order; the records of every
\* namespace that could be listed are collected; each failed list is counted
\* as api_error; and every collected record is remediated.
C17_ListFailureDoesNotAbortScan ==
    /\ ScanOver
        => /\ Len(ListCalls) = Len(Namespaces)
           /\ \A i \in 1..Len(Namespaces) : ListCalls[i].namespace = Namespaces[i]
           /\ unhealthy_pods = Collected(ListCalls)
    /\ HEAL_ERRORS["api_error"] >= FailedCalls({"list_namespaced_pod"})
    /\ pc = "scan" => HEAL_ERRORS["api_error"] = FailedCalls({"list_namespaced_pod"})
    /\ (pc \in {"report", "returned", "done"} /\ NoCycleError)
        => /\ Len(heal_log) = Len(Records(unhealthy_pods))
           /\ \A h \in 1..Len(heal_log) :
                heal_log[h].pod_info = Records(unhealthy_pods)[h]

\* The list of portal failed; the pod found in hrt-sre was healed.
C17_Witness ==
    /\ pc = "done" /\ Len(ListCalls) = 2
    /\ ~ListCalls[1].ok /\ ListCalls[2].ok
    /\ HEAL_ERRORS["api_error"] = 1
    /\ Len(unhealthy_pods) = 1 /\ unhealthy_pods[1].namespace = "hrt-sre"
    /\ Len(heal_log) = 1 /\ heal_log[1].ret
    /\ heal_log[1].pod_info.namespace = "hrt-sre"

\* C18: the healed total is the number of records whose remediation returned
\* True; it never exceeds the number of records found; and the cycle has
\* slept exactly once per healed record.
C18_HealedCountsSuccesses ==
    /\ healed_count = Cardinality({h \in 1..Len(heal_log) : heal_log[h].ret})
    /\ healed_count <= TotalUnhealthy(unhealthy_pods)
    /\ Cardinality({i \in 1..Len(calls) : IsSleep(calls[i])}) = healed_count
    /\ \A i \in 1..Len(report.log) :
        report.log[i].msg = "Healing cycle completed"
            => report.log[i].healed = healed_count

\* Of three records found one was healed, the others skipped or failed.
C18_Witness ==
    /\ pc = "done" /\ TotalUnhealthy(unhealthy_pods) = 3
    /\ Len(heal_log) = 3 /\ healed_count = 1
    /\ ~heal_log[1].ret /\ heal_log[2].ret /\ ~heal_log[3].ret

\* The report (the job summary or a line of the cycle's log) has a field f.
Carried(f) ==
    \/ f \in DOMAIN report.summary
    \/ \E i \in 1..Len(report.log) : f \in DOMAIN report.log[i]

\* C19: the report of every cycle carries the total of unhealthy records
\* found, the healed total and a breakdown per namespace, and the total found
\* is the sum of the records over the namespaces and the value of the gauge.
C19_ReportCarriesTotals ==
    (pc = "done" /\ NoCycleError)
        => /\ Carried("total_unhealthy")
           /\ Carried("healed")
           /\ Carried("per_namespace")
           /\ UNHEALTHY_PODS = TotalUnhealthy(unhealthy_pods)
           /\ TotalUnhealthy(unhealthy_pods) = Len(Records(unhealthy_pods))

\* The phases of a cycle follow Start -> Scan -> Remediate* -> Report -> End.
PhaseOrder ==
    \/ pc = "scan" /\ pc' \in {"scan", "remediate", "returned"}
    \/ pc = "remediate" /\ pc' \in {"remediate", "report", "returned"}
    \/ pc = "report" /\ pc' = "returned"
    \/ pc = "returned" /\ pc' = "done"

\* The order of the calls and of the remediations so far.
CallOrder ==
    /\ \A i, k \in 1..Len(calls) :
        (i < k /\ calls[k].op = "list_namespaced_pod") => calls[i].op = "list_namespaced_pod"
    /\ \A i \in 1..Len(ListCalls) : ListCalls[i].namespace = Namespaces[i]
    /\ pc = "scan" => heal_log = <<>>
    /\ heal_log # <<>> => Len(ListCalls) = Len(Namespaces)
    /\ Len(heal_log) <= Len(Records(unhealthy_pods))
    /\ \A h \in 1..Len(heal_log) : heal_log[h].pod_info = Records(unhealthy_pods)[h]
    /\ \A i, k \in 1..Len(calls) :
        (i < k /\ calls[i].heal >= 1 /\ calls[k].heal >= 1)
            => /\ calls[i].heal <= calls[k].heal
               /\ calls[i].heal = calls[k].heal
                    => /\ IsPodRead(calls[k]) => FALSE
                       /\ IsRsRead(calls[k]) => ~IsPatch(calls[i]) /\ ~IsSleep(calls[i])
                       /\ IsPatch(calls[k]) => ~IsSleep(calls[i])
    /\ \A h \in 1..Len(heal_log) :
        (\E i \in CallsOf(calls, h) : IsPatch(calls[i]))
            => /\ \E i \in CallsOf(calls, h) : IsPodRead(calls[i]) /\ calls[i].ok
               /\ \E i \in CallsOf(calls, h) : IsRsRead(calls[i]) /\ calls[i].ok
    /\ pc = "remediate" => Len(heal_log) < Len(Records(unhealthy_pods))
    /\ (pc = "report" \/ \E i \in 1..Len(report.log) :
                            report.log[i].msg = "Healing cycle completed")
        => Len(heal_log) = Len(Records(unhealthy_pods))
    /\ report.summary # <<>> <=> pc = "done"

\* C26: a cycle goes through scan, remediation and report in this order: all
\* namespace lists come before the first remediation call; the records are
\* remediated in the order the scan collected them; within one remediation
\* the pod read comes first, the ReplicaSet reads next and the patch after
\* them; and the cycle reports only after the last record was remediated.
C26_ScanRemediateReport ==
    [][PhaseOrder /\ CallOrder']_vars

\* Three records of two namespaces were remediated in scan order and the
\* second one was patched after its reads; the cycle has reported.
C26_Witness ==
    /\ pc = "done" /\ Len(unhealthy_pods) = 2 /\ Len(heal_log) = 3
    /\ heal_log[1].pod_info.namespace = "portal"
    /\ heal_log[3].pod_info.namespace = "hrt-sre"
    /\ \E i \in CallsOf(calls, 2) : IsPatch(calls[i])
    /\ report.log[Len(report.log)].msg = "Healing cycle completed"

\* The scan made a record for pod p of the namespace.
HasRecord(p, namespace) ==
    \E i \in 1..Len(Records(unhealthy_pods)) :
        /\ Records(unhealthy_pods)[i].name = p.name
        /\ Records(unhealthy_pods)[i].namespace = namespace

\* C27: the scan and is_pod_unhealthy classify alike: after the scan a listed
\* pod has a record if and only if is_pod_unhealthy holds for it at the
\* configured threshold, and every record has a restart count that reaches
\* the threshold.
C27_ScanAgreesWithInspector ==
    ScanOver
        => /\ \A i \in 1..Len(ListCalls) :
                ListCalls[i].ok
                    => \A j \in 1..Len(ListCalls[i].value) :
                        LET p == ListCalls[i].value[j]
                        IN HasRecord(p, ListCalls[i].namespace)
                            <=> is_pod_unhealthy(Returned(p.container_statuses),
                                                 restart_threshold).ret
           /\ \A i \in 1..Len(Records(unhealthy_pods)) :
                Records(unhealthy_pods)[i].restart_count >= restart_threshold

\* Invocation h met an object that was gone: its pod read, a ReplicaSet read
\* or its patch was answered with an error.
Vanished(cs, h) == \E i \in CallsOf(cs, h) : ~cs[i].ok

\* C28: when the pod, its ReplicaSet or its Deployment is gone at remediation
\* time, the record is skipped and nothing escalates: heal_deployment returns
\* False after the failed call, no restart and no healed record is counted,
\* no delay is taken, no cycle error is counted, and the cycle goes on with
\* the next record, or reports when this was the last.
C28_VanishedObjectSkipped ==
    [][(HealStep /\ Vanished(calls', Len(heal_log')))
        => LET h == Len(heal_log')
           IN /\ ~heal_log'[h].ret /\ ~heal_log'[h].raised
              /\ ~calls'[Len(calls')].ok /\ calls'[Len(calls')].heal = h
              /\ HEAL_ACTIONS' = HEAL_ACTIONS
              /\ healed_count' = healed_count
              /\ HEAL_ERRORS'["cycle_error"] = HEAL_ERRORS["cycle_error"]
              /\ HEAL_ERRORS'["api_error"] + HEAL_ERRORS'["patch_failed"]
                    = HEAL_ERRORS["api_error"] + HEAL_ERRORS["patch_failed"] + 1
              /\ pc' = IF h < Len(Records(unhealthy_pods)) THEN "remediate" ELSE "report"
              /\ h < Len(Records(unhealthy_pods))
                    => unhealthy_pods[cur'[1]].pods[cur'[2]] = Records(unhealthy_pods)[h + 1]]_vars

\* The ReplicaSet of the first record was gone; the second record was healed.
C28_Witness ==
    /\ pc = "done" /\ Len(heal_log) = 2
    /\ \E i \in CallsOf(calls, 1) : IsRsRead(calls[i]) /\ ~calls[i].ok
    /\ ~heal_log[1].ret /\ heal_log[2].ret
    /\ healed_count = 1

(* ==================== properties: heal_deployment ===================== *)
\* The owner references returned by the pod read of invocation h.
PodOwnersRead(cs, h) ==
    LET i == CHOOSE i \in CallsOf(cs, h) : IsPodRead(cs[i]) IN cs[i].value

\* The Deployment that invocation h resolved: the first Deployment owner of the
\* ReplicaSet read that listed one.
Target(cs, h) ==
    LET i == CHOOSE i \in CallsOf(cs, h) :
                /\ IsRsRead(cs[i]) /\ cs[i].ok
                /\ \E j \in 1..Len(cs[i].value) : cs[i].value[j].kind = "Deployment"
        owners == cs[i].value
        j == CHOOSE j \in 1..Len(owners) :
                /\ owners[j].kind = "Deployment"
                /\ \A k \in 1..Len(owners) : owners[k].kind = "Deployment" => j <= k
    IN owners[j].name

\* C9: for a pod owned by a ReplicaSet that is owned by a Deployment the
\* remediation targets exactly that Deployment (the patch, or under dry-run
\* the counted resource), every ReplicaSet read is for a ReplicaSet owner of
\* the pod, and the ReplicaSet reads and the patch use the pod's own namespace.
C9_TargetsOwningDeployment ==
    [][(HealStep /\ Resolved(calls', Len(heal_log')))
        => LET h == Len(heal_log')
               namespace == heal_log'[h].pod_info.namespace
               t == Target(calls', h)
               patches == {i \in CallsOf(calls', h) : IsPatch(calls'[i])}
           IN /\ \A i \in CallsOf(calls', h) :
                    /\ calls'[i].namespace = namespace
                    /\ IsRsRead(calls'[i])
                        => \E o \in 1..Len(PodOwnersRead(calls', h)) :
                              PodOwnersRead(calls', h)[o] =
                                  [kind |-> "ReplicaSet", name |-> calls'[i].name]
              /\ IF dry_run
                 THEN /\ patches = {}
                      /\ HEAL_ACTIONS' = [HEAL_ACTIONS EXCEPT
                            ![<<"dry_run_restart", namespace, t>>] = @ + 1]
                 ELSE /\ Cardinality(patches) = 1
                      /\ \A i \in patches : calls'[i].name = t
                      /\ HEAL_ACTIONS' = [HEAL_ACTIONS EXCEPT
                            ![<<"restart", namespace, t>>] =
                                IF heal_log'[h].ret THEN @ + 1 ELSE @]]_vars

\* A pod of hrt-sre whose second owner rs-2 is owned by app-2 was patched.
C9_Witness ==
    /\ ~dry_run /\ Len(heal_log) = 1 /\ heal_log[1].ret
    /\ heal_log[1].pod_info.namespace = "hrt-sre"
    /\ \E i \in CallsOf(calls, 1) :
        /\ IsPatch(calls[i]) /\ calls[i].ok
        /\ calls[i].name = "app-2" /\ calls[i].namespace = "hrt-sre"
    /\ \E i \in CallsOf(calls, 1) :
        /\ IsRsRead(calls[i]) /\ calls[i].name = "rs-2"
        /\ calls[i].value = <<[kind |-> "Deployment", name |-> "app-2"]>>

\* The names of the ReplicaSets that invocation h read, in call order.
RECURSIVE RsReadNames(_, _)
RsReadNames(cs, h) ==
    IF cs = <<>> THEN <<>>
    ELSE (IF Head(cs).heal = h /\ IsRsRead(Head(cs)) THEN <<Head(cs).name>> ELSE <<>>)
            \o RsReadNames(Tail(cs), h)

\* The names of the owners of kind ReplicaSet, in list order.
RECURSIVE RsOwnerNames(_)
RsOwnerNames(owners) ==
    IF owners = <<>> THEN <<>>
    ELSE (IF Head(owners).kind = "ReplicaSet" THEN <<Head(owners).name>> ELSE <<>>)
            \o RsOwnerNames(Tail(owners))

\* Invocation h read its pod, no call of it failed and no ReplicaSet it read
\* listed a Deployment.
NoDeploymentFound(cs, h) ==
    /\ \E i \in CallsOf(cs, h) : IsPodRead(cs[i])
    /\ \A i \in CallsOf(cs, h) : cs[i].ok
    /\ ~Resolved(cs, h)

\* C11: when none of the pod's ReplicaSet owners has a Deployment owner (also
\* when all owners are of other kinds) every ReplicaSet owner is read, in
\* order, and the result is a skip: heal_deployment returns False, no patch is
\* issued and no counter changes.
C11_NoDeploymentSkipped ==
    [][(HealStep /\ NoDeploymentFound(calls', Len(heal_log')))
        => LET h == Len(heal_log')
           IN /\ RsReadNames(calls', h) = RsOwnerNames(PodOwnersRead(calls', h))
              /\ ~heal_log'[h].ret /\ ~heal_log'[h].raised
              /\ \A i \in CallsOf(calls', h) : ~IsPatch(calls'[i])
              /\ HEAL_ACTIONS' = HEAL_ACTIONS
              /\ HEAL_ERRORS' = HEAL_ERRORS]_vars

\* Two ReplicaSet owners, neither owned by a Deployment: both were read.
C11_Witness ==
    /\ Len(heal_log) = 1 /\ ~heal_log[1].ret
    /\ NoDeploymentFound(calls, 1)
    /\ RsReadNames(calls, 1) = <<"rs-1", "rs-2">>

\* C12: one heal_deployment call issues at most one patch, to the first
\* Deployment of the first ReplicaSet that lists one, and reads no further
\* ReplicaSet after it; also with several ReplicaSet or Deployment owners, and
\* also when the patch fails.
C12_AtMostOnePatch ==
    \A h \in 1..Len(heal_log) :
        LET patches == {i \in CallsOf(calls, h) : IsPatch(calls[i])}
        IN /\ Cardinality(patches) <= 1
           /\ \A i \in patches :
                /\ Resolved(calls, h)
                /\ calls[i].name = Target(calls, h)
                /\ \A k \in CallsOf(calls, h) : k <= i
           /\ Cardinality({i \in CallsOf(calls, h) :
                    /\ IsRsRead(calls[i]) /\ calls[i].ok
                    /\ \E j \in 1..Len(calls[i].value) :
                          calls[i].value[j].kind = "Deployment"}) <= 1
           /\ \A i, k \in CallsOf(calls, h) :
                (/\ IsRsRead(calls[i]) /\ IsRsRead(calls[k]) /\ i < k)
                => \A j \in 1..Len(calls[i].value) : calls[i].value[j].kind # "Deployment"

\* Two ReplicaSet owners, the first owned by two Deployments, the patch failed.
C12_Witness ==
    /\ ~dry_run /\ Len(heal_log) = 1 /\ ~heal_log[1].ret
    /\ Len(RsOwnerNames(PodOwnersRead(calls, 1))) = 2
    /\ Len(RsReadNames(calls, 1)) = 1
    /\ \E i \in CallsOf(calls, 1) :
        /\ IsRsRead(calls[i])
        /\ calls[i].value = <<[kind |-> "Deployment", name |-> "app-2"],
                              [kind |-> "Deployment", name |-> "app-1"]>>
    /\ \E i \in CallsOf(calls, 1) :
        IsPatch(calls[i]) /\ ~calls[i].ok /\ calls[i].name = "app-2"

\* Invocation h sent a patch that the cluster accepted / rejected.
PatchAccepted(cs, h) == \E i \in CallsOf(cs, h) : IsPatch(cs[i]) /\ cs[i].ok
PatchRejected(cs, h) == \E i \in CallsOf(cs, h) : IsPatch(cs[i]) /\ ~cs[i].ok

\* The counters of type 'restart' are the same before and after the step.
RestartCountersUnchanged ==
    \A l \in ActionLabels : l[1] = "restart" => HEAL_ACTIONS'[l] = HEAL_ACTIONS[l]

\* C13: with dry-run disabled an accepted patch increments the 'restart'
\* counter of the pod's namespace and the patched Deployment by exactly one
\* and heal_deployment returns True; every other step (a skip, a rejected
\* patch, a failed read) leaves all 'restart' counters as they were.
C13_RestartCountedOnSuccessOnly ==
    [][IF HealStep /\ ~dry_run /\ PatchAccepted(calls', Len(heal_log'))
       THEN LET h == Len(heal_log')
            IN /\ heal_log'[h].ret
               /\ HEAL_ACTIONS' = [HEAL_ACTIONS EXCEPT
                    ![<<"restart", heal_log'[h].pod_info.namespace,
                        Target(calls', h)>>] = @ + 1]
               /\ HEAL_ERRORS' = HEAL_ERRORS
       ELSE RestartCountersUnchanged]_vars

\* An accepted patch of app-1 in portal was counted once as a restart.
C13_Witness ==
    /\ ~dry_run /\ Len(heal_log) = 1 /\ heal_log[1].ret
    /\ PatchAccepted(calls, 1)
    /\ HEAL_ACTIONS[<<"restart", "portal", "app-1">>] = 1
    /\ \A l \in ActionLabels : l # <<"restart", "portal", "app-1">> => HEAL_ACTIONS[l] = 0

\* The step is one direct call of restart_deployment or scale_deployment.
PatcherStep == result.fn = "" /\ result'.fn \in {"restart_deployment", "scale_deployment"}

\* C14: a rejected restart or scale patch never raises: restart_deployment and
\* scale_deployment return False, heal_deployment returns False after
\* incrementing the patch_failed error counter by one, and nothing is raised
\* towards run_healing_cycle.
C14_PatchErrorNeverRaised ==
    [][/\ (PatcherStep /\ ~calls'[Len(calls')].ok)
            => (result'.ok /\ result'.value = FALSE)
       /\ (HealStep /\ PatchRejected(calls', Len(heal_log')))
            => LET h == Len(heal_log')
               IN /\ ~heal_log'[h].ret /\ ~heal_log'[h].raised
                  /\ HEAL_ERRORS' = [HEAL_ERRORS EXCEPT !["patch_failed"] = @ + 1]
                  /\ HEAL_ACTIONS' = HEAL_ACTIONS]_vars

\* A rejected scale patch returned False, and a rejected restart patch inside
\* heal_deployment was counted as patch_failed.
C14_Witness ==
    /\ result.fn = "scale_deployment" /\ result.ok /\ result.value = FALSE
    /\ \E i \in CallsOf(calls, 0) :
        IsPatch(calls[i]) /\ ~calls[i].ok /\ calls[i].body = ScalePatch(2)
    /\ Len(heal_log) = 1 /\ PatchRejected(calls, 1)
    /\ ~heal_log[1].ret /\ ~heal_log[1].raised
    /\ HEAL_ERRORS["patch_failed"] = 1

\* The patch sets the replica count / touches the pod template.
SetsReplicas(body) == "replicas" \in DOMAIN body.spec
SetsTemplate(body) == "template" \in DOMAIN body.spec

\* The patch was sent by scale_deployment.
ScalePatchCall(i) == calls[i].heal = 0 /\ result.fn = "scale_deployment"

\* C30: the auto-heal path never scales: the only mutating call of
\* heal_deployment and of restart_deployment is a patch of the pod template's
\* annotations that does not set spec.replicas; the patch of scale_deployment
\* sets spec.replicas to the number asked for and nothing else.
C30_RestartAndScaleFrames ==
    \A i \in 1..Len(calls) :
        /\ calls[i].op \in {"read_namespaced_pod", "read_namespaced_replica_set",
                            "patch_namespaced_deployment"}
        /\ IsPatch(calls[i])
            => IF ScalePatchCall(i)
               THEN /\ DOMAIN calls[i].body = {"spec"}
                    /\ DOMAIN calls[i].body.spec = {"replicas"}
                    /\ calls[i].body.spec.replicas \in 0..MaxReplicas
               ELSE /\ DOMAIN calls[i].body = {"spec"}
                    /\ DOMAIN calls[i].body.spec = {"template"}
                    /\ DOMAIN calls[i].body.spec.template = {"metadata"}
                    /\ DOMAIN calls[i].body.spec.template.metadata = {"annotations"}
                    /\ ~SetsReplicas(calls[i].body)

\* A remediation sent its restart patch, and scale_deployment a patch that
\* sets 0 replicas.
C30_Witness ==
    /\ Len(heal_log) = 1 /\ heal_log[1].ret
    /\ \E i \in CallsOf(calls, 1) :
        IsPatch(calls[i]) /\ SetsTemplate(calls[i].body) /\ ~SetsReplicas(calls[i].body)
    /\ result.fn = "scale_deployment" /\ result.value = TRUE
    /\ \E i \in CallsOf(calls, 0) :
        /\ IsPatch(calls[i]) /\ SetsReplicas(calls[i].body)
        /\ ~SetsTemplate(calls[i].body) /\ calls[i].body.spec.replicas = 0

\* The sum of the values of the counter f over the labels in S.
RECURSIVE SumOver(_, _)
SumOver(f, S) ==
    IF S = {} THEN 0
    ELSE LET l == CHOOSE l \in S : TRUE IN f[l] + SumOver(f, S \ {l})

\* By how much the step raised the counters of a remediation outcome.
ActionsAdded == SumOver(HEAL_ACTIONS', ActionLabels) - SumOver(HEAL_ACTIONS, ActionLabels)
ErrorsAdded ==
    SumOver(HEAL_ERRORS', {"api_error", "patch_failed"})
        - SumOver(HEAL_ERRORS, {"api_error", "patch_failed"})

\* C37: one heal_deployment call records at most one metric outcome: it
\* increments exactly one of restart, dry_run_restart, patch_failed and
\* api_error, by one, or none of them when it skips (no owner, or no Deployment
\* found, with every read answered); it returns True exactly when it
\* incremented restart or dry_run_restart.
C37_OneMetricOutcomePerHeal ==
    [][HealStep
        => LET h == Len(heal_log')
               skipped == /\ \A i \in CallsOf(calls', h) : calls'[i].ok
                          /\ ~Resolved(calls', h)
           IN /\ ActionsAdded \in {0, 1} /\ ErrorsAdded \in {0, 1}
              /\ \A l \in ActionLabels : HEAL_ACTIONS'[l] >= HEAL_ACTIONS[l]
              /\ \A e \in ErrorTypes : HEAL_ERRORS'[e] >= HEAL_ERRORS[e]
              /\ HEAL_ERRORS'["cycle_error"] = HEAL_ERRORS["cycle_error"]
              /\ ActionsAdded + ErrorsAdded = IF skipped THEN 0 ELSE 1
              /\ heal_log'[h].ret <=> ActionsAdded = 1]_vars

\* A remediation whose ReplicaSet read failed counted api_error and nothing else.
C37_Witness ==
    /\ Len(heal_log) = 1 /\ ~heal_log[1].ret
    /\ \E i \in CallsOf(calls, 1) : IsRsRead(calls[i]) /\ ~calls[i].ok
    /\ HEAL_ERRORS = [e \in ErrorTypes |-> IF e = "api_error" THEN 1 ELSE 0]
    /\ HEAL_ACTIONS = [l \in ActionLabels |-> 0]

(* =================== properties: PodRestartHealer ===================== *)
RestartCountsOf(p) ==
    {p.container_statuses[i].restart_count : i \in 1..Len(p.container_statuses)}

\* The largest restart count of the pod's containers, 0 for a pod without any.
MaxRestartCount(p) ==
    CHOOSE m \in RestartCountsOf(p) \cup {0} : \A c \in RestartCountsOf(p) \cup {0} : c <= m

RECURSIVE SumRestartCounts(_)
SumRestartCounts(cs) ==
    IF cs = <<>> THEN 0 ELSE Head(cs).restart_count + SumRestartCounts(Tail(cs))

\* C6: for a pod with no container-status entries the restart count is 0 and
\* is_pod_unhealthy is false for every threshold, threshold 0 included.
C6_NoStatusesHealthy ==
    (result.ok /\ the_pod.container_statuses = <<>>)
    => /\ result.fn = "get_pod_restart_count" => result.value = 0
       /\ result.fn = "is_pod_unhealthy" => result.value = FALSE

\* C7: get_pod_restart_count returns the maximum of the containers' restart
\* counts, not their sum, and the restart_count of get_pod_health_status is
\* that maximum.
C7_RestartCountIsMax ==
    result.ok
    => /\ result.fn = "get_pod_restart_count"
            => /\ result.value = MaxRestartCount(the_pod)
               /\ (SumRestartCounts(the_pod.container_statuses) > MaxRestartCount(the_pod)
                    => result.value # SumRestartCounts(the_pod.container_statuses))
       /\ result.fn = "get_pod_health_status"
            => result.value.restart_count = MaxRestartCount(the_pod)

C7_Witness ==
    /\ result.fn = "get_pod_restart_count" /\ result.ok
    /\ Len(the_pod.container_statuses) = 2
    /\ the_pod.container_statuses[1].restart_count = 2
    /\ the_pod.container_statuses[2].restart_count = 3
    /\ result.value = 3

\* C8: is_pod_unhealthy is true exactly when the pod's restart count (0 when
\* the pod cannot be read) is greater than or equal to the threshold.
C8_UnhealthyIffAtThreshold ==
    result.fn = "is_pod_unhealthy"
    => (result.value <=>
            (IF result.ok THEN MaxRestartCount(the_pod) ELSE 0) >= restart_threshold)

\* Threshold 3, restart counts [2, 3]: unhealthy.
C8_Witness ==
    /\ result.fn = "is_pod_unhealthy" /\ result.ok /\ restart_threshold = 3
    /\ Len(the_pod.container_statuses) = 2
    /\ the_pod.container_statuses[1].restart_count = 2
    /\ the_pod.container_statuses[2].restart_count = 3
    /\ result.value = TRUE

\* C24: when the pod cannot be read get_pod_restart_count returns 0 and
\* raises nothing, so is_pod_unhealthy does not raise either and answers as
\* for a restart count of 0.
C24_RestartCountSoftFails ==
    /\ result.fn \in {"get_pod_restart_count", "is_pod_unhealthy"} => ~result.raised
    /\ (result.fn = "get_pod_restart_count" /\ ~result.ok) => result.value = 0
    /\ (result.fn = "is_pod_unhealthy" /\ ~result.ok)
        => (result.value <=> 0 >= restart_threshold)

\* A pod with 3 restarts could not be read: at threshold 3 it is reported
\* healthy, without an error.
C24_Witness ==
    /\ result.fn = "is_pod_unhealthy" /\ ~result.ok /\ ~result.raised
    /\ restart_threshold = 3
    /\ Len(the_pod.container_statuses) = 1
    /\ the_pod.container_statuses[1].restart_count = 3
    /\ result.value = FALSE

\* C25: the ready flag of get_pod_health_status is true if and only if the
\* pod has at least one container status and every container is ready; a pod
\* without container statuses is not ready, with restart count 0 and no
\* containers listed.
C25_ReadyIffAllContainersReady ==
    (result.fn = "get_pod_health_status" /\ result.ok)
        => LET cs == the_pod.container_statuses
           IN /\ result.value.ready <=>
                    (Len(cs) >= 1 /\ \A i \in 1..Len(cs) : cs[i].ready)
              /\ Len(result.value.containers) = Len(cs)
              /\ \A i \in 1..Len(cs) : result.value.containers[i].ready = cs[i].ready
              /\ cs = <<>>
                    => /\ result.value.restart_count = 0
                       /\ result.value.containers = <<>>

\* Of two containers the second is ready and the first is not: not ready.
C25_Witness ==
    /\ result.fn = "get_pod_health_status" /\ result.ok
    /\ Len(the_pod.container_statuses) = 2
    /\ ~the_pod.container_statuses[1].ready
    /\ the_pod.container_statuses[2].ready
    /\ ~result.value.ready

(* ================ properties: NamespaceHealthChecker ================== *)
\* The last call returned a summary, not an error.
Summarised ==
    /\ result.fn = "get_namespace_health_summary"
    /\ "error" \notin DOMAIN result.value

\* readyReplicas of a deployment, 0 when absent.
ReadyReplicas(deployment) ==
    IF deployment.ready_replicas = None THEN 0 ELSE deployment.ready_replicas[1]

\* C20: the summary counts a deployment as ready if and only if its
\* readyReplicas equals its spec.replicas, for every pair of values; a
\* deployment scaled to zero with zero or absent readyReplicas counts as ready.
C20_ReadyIffReplicasMatch ==
    Summarised
        => result.value.deployments.ready =
              Cardinality({i \in 1..Len(the_namespace.deployments) :
                    ReadyReplicas(the_namespace.deployments[i]) =
                        the_namespace.deployments[i].replicas})

\* The pod counts of the summary returned and the pods that were listed.
PodCounts == result.value.pods
ListedPods == the_namespace.pods

\* The count of the bucket 'other', 0 when the summary has no such count.
OtherCount(counts) == IF "other" \in DOMAIN counts THEN counts.other ELSE 0

\* C21: the summary puts every listed pod into exactly one of the buckets
\* running, pending, failed and other: the pod total is the sum of the four
\* bucket counts.
C21_TotalIsSumOfBuckets ==
    Summarised
        => /\ PodCounts.total = Len(ListedPods)
           /\ PodCounts.total = PodCounts.running + PodCounts.pending
                                    + PodCounts.failed + OtherCount(PodCounts)

\* C22: the unhealthy count is the number of listed pods with at least one
\* container whose restart count is 3 or more; a pod counts once however many
\* of its containers reach 3, so unhealthy <= total.
C22_UnhealthyCountsPodsOnce ==
    Summarised
        => /\ PodCounts.unhealthy =
                Cardinality({i \in 1..Len(ListedPods) :
                    \E j \in 1..Len(ListedPods[i].container_statuses) :
                        ListedPods[i].container_statuses[j].restart_count >= 3})
           /\ PodCounts.unhealthy <= PodCounts.total

\* Two pods, one with both containers at 3 restarts and one at 2: unhealthy is 1.
C22_Witness ==
    /\ Summarised
    /\ Len(ListedPods) = 2
    /\ Len(ListedPods[1].container_statuses) = 2
    /\ \A j \in 1..2 : ListedPods[1].container_statuses[j].restart_count = 3
    /\ Len(ListedPods[2].container_statuses) = 1
    /\ ListedPods[2].container_statuses[1].restart_count = 2
    /\ PodCounts.unhealthy = 1 /\ PodCounts.total = 2

\* A list call of the last summary call failed.
ListFailed == \E i \in 1..Len(calls) : ~calls[i].ok

\* C23: get_namespace_health_summary never raises when one of its list calls
\* fails: it returns the namespace, an error and a timestamp and no pod or
\* deployment counts; it issues list calls only, each for its namespace, and
\* nothing after the call that failed.
C23_ListFailureGivesErrorSummary ==
    result.fn = "get_namespace_health_summary"
        => /\ result.ok
           /\ \A i \in 1..Len(calls) :
                /\ calls[i].op \in {"list_namespaced_pod", "list_namespaced_deployment"}
                /\ calls[i].namespace = result.value.namespace
                /\ ~calls[i].ok => i = Len(calls)
           /\ ListFailed
                => /\ DOMAIN result.value = {"namespace", "error", "timestamp"}
                   /\ result.value.namespace \in {Namespaces[i] : i \in 1..Len(Namespaces)}
           /\ ~ListFailed => "error" \notin DOMAIN result.value

\* The pods were listed and counted, then the list of the deployments failed.
C23_Witness ==
    /\ result.fn = "get_namespace_health_summary" /\ result.ok
    /\ Len(calls) = 2 /\ calls[1].ok /\ ~calls[2].ok
    /\ calls[2].op = "list_namespaced_deployment"
    /\ Len(ListedPods) = 2
    /\ DOMAIN result.value = {"namespace", "error", "timestamp"}
    /\ result.value.namespace = "hrt-sre"

(* ===================== properties: concurrent runs ==================== *)
\* The deployment whose restart patch run p has in flight.
InFlight(p) ==
    LET cs == cycles[p].pending[1].calls
        i == CHOOSE i \in 1..Len(cs) : IsPatch(cs[i])
    IN <<cs[i].namespace, cs[i].name>>

Patching(p) == cycles[p].pc = "patching"

\* C29: at most one remediation is in flight per deployment (namespace and
\* name) at any time, also when two healing cycles are invoked over the same
\* namespaces: no two restart patches of the same deployment overlap.
C29_OneRemediationInFlight ==
    \A p, q \in Cycles :
        (p # q /\ Patching(p) /\ Patching(q)) => InFlight(p) # InFlight(q)

(* ============ properties: the scan result and what is patched ========== *)
\* The response of a pod list holds a container at or over the threshold.
HasUnhealthy(items) ==
    \E p \in 1..Len(items) : \E c \in 1..Len(items[p].container_statuses) :
        items[p].container_statuses[c].restart_count >= restart_threshold

\* C35: every record of the scan result has a restart count at or over the
\* threshold and the namespace of the key it is stored under; no namespace is
\* stored with an empty list, nor twice; and a namespace whose list failed or
\* showed no unhealthy pod is absent from the result.
C35_ScanResultWellFormed ==
    /\ \A e \in 1..Len(unhealthy_pods) :
        /\ unhealthy_pods[e].pods # <<>>
        /\ \A r \in 1..Len(unhealthy_pods[e].pods) :
            /\ unhealthy_pods[e].pods[r].restart_count >= restart_threshold
            /\ unhealthy_pods[e].pods[r].namespace = unhealthy_pods[e].namespace
        /\ \A f \in 1..Len(unhealthy_pods) :
            unhealthy_pods[e].namespace = unhealthy_pods[f].namespace => e = f
        /\ \E l \in 1..Len(ListCalls) :
            ListCalls[l].namespace = unhealthy_pods[e].namespace
    /\ \A l \in 1..Len(ListCalls) :
        (~ListCalls[l].ok \/ ~HasUnhealthy(ListCalls[l].value))
            => \A e \in 1..Len(unhealthy_pods) :
                    unhealthy_pods[e].namespace # ListCalls[l].namespace

\* portal listed a pod under the threshold and is absent; hrt-sre is stored
\* with its one record.
C35_Witness ==
    /\ ScanOver /\ restart_threshold = 1 /\ Len(ListCalls) = 2
    /\ ListCalls[1].ok /\ ListCalls[1].value # <<>> /\ ~HasUnhealthy(ListCalls[1].value)
    /\ ListCalls[2].ok
    /\ Len(unhealthy_pods) = 1 /\ unhealthy_pods[1].namespace = "hrt-sre"
    /\ Len(unhealthy_pods[1].pods) = 1

\* Positions of the calls of one operation in the call log.
CallsTo(ops) == {i \in 1..Len(calls) : calls[i].op \in ops}

\* C36: every patched deployment is the Deployment owner, through a ReplicaSet
\* owner of the pod, of a pod that this cycle's scan recorded; there are at
\* most as many patches as scanned records; and a cycle whose scan found
\* nothing reads no pod, reads no ReplicaSet and patches nothing.
C36_PatchesOnlyScannedOwners ==
    /\ \A i \in CallsTo(PatchOps) :
        LET h == calls[i].heal
        IN /\ h \in 1..Len(heal_log) /\ h <= Len(Records(unhealthy_pods))
           /\ heal_log[h].pod_info = Records(unhealthy_pods)[h]
           /\ calls[i].namespace = heal_log[h].pod_info.namespace
           /\ \E p \in CallsOf(calls, h) :
                /\ IsPodRead(calls[p]) /\ calls[p].ok /\ p < i
                /\ calls[p].name = heal_log[h].pod_info.name
                /\ calls[p].namespace = heal_log[h].pod_info.namespace
                /\ \E r \in CallsOf(calls, h) :
                    /\ IsRsRead(calls[r]) /\ calls[r].ok /\ p < r /\ r < i
                    /\ calls[r].namespace = calls[i].namespace
                    /\ \E o \in 1..Len(calls[p].value) :
                        calls[p].value[o] = [kind |-> "ReplicaSet", name |-> calls[r].name]
                    /\ \E d \in 1..Len(calls[r].value) :
                        calls[r].value[d] = [kind |-> "Deployment", name |-> calls[i].name]
    /\ Cardinality(CallsTo(PatchOps)) <= Len(Records(unhealthy_pods))
    /\ (ScanOver /\ unhealthy_pods = <<>>)
        => CallsTo(ReadOps \cup PatchOps) \subseteq CallsTo({"list_namespaced_pod"})

\* Two records were scanned; only the second had a Deployment owner and was patched.
C36_Witness ==
    /\ pc = "done" /\ Len(Records(unhealthy_pods)) = 2
    /\ Cardinality(CallsTo(PatchOps)) = 1
    /\ \A i \in CallsTo(PatchOps) : calls[i].heal = 2 /\ calls[i].ok

\* A cycle whose scan found nothing ended with the list calls alone.
C36_WitnessEmptyScan ==
    /\ pc = "done" /\ unhealthy_pods = <<>> /\ Len(calls) = Len(Namespaces)

(* ============== properties: the state of a container ================== *)
\* The part of a reported container state that the snapshot must name: the
\* first populated of running, waiting, terminated, "" when there is none.
FirstPopulated(container) ==
    IF container.state = None THEN ""
    ELSE IF container.state[1].running # None THEN "running"
    ELSE IF container.state[1].waiting # None THEN "waiting"
    ELSE IF container.state[1].terminated # None THEN "terminated"
    ELSE ""

\* How many of the three parts of a container's state are populated.
Populated(container) ==
    IF container.state = None THEN 0
    ELSE Cardinality({f \in {"running", "waiting", "terminated"} :
                        container.state[1][f] # None})

\* C33: in the pod snapshot the state of a container is chosen by priority,
\* running before waiting before terminated: the first populated part is the
\* one recorded, with its started_at or reason, and when the state or all of
\* its parts are absent the container's entry has no state, started_at or reason.
C33_StateByPriority ==
    (result.fn = "get_pod_health_status" /\ result.ok)
        => LET cs == the_pod.container_statuses
               infos == result.value.containers
           IN /\ Len(infos) = Len(cs)
              /\ \A i \in 1..Len(cs) :
                    LET want == FirstPopulated(cs[i])
                    IN /\ "state" \in DOMAIN infos[i] <=> want # ""
                       /\ want # "" => infos[i].state = want
                       /\ "started_at" \in DOMAIN infos[i] <=> want = "running"
                       /\ want = "running"
                            => infos[i].started_at = cs[i].state[1].running[1].started_at
                       /\ "reason" \in DOMAIN infos[i] <=> want \in {"waiting", "terminated"}
                       /\ want \in {"waiting", "terminated"}
                            => infos[i].reason = cs[i].state[1][want][1].reason

\* A container with waiting and terminated both populated is recorded as
\* waiting, and one whose state has no populated part has no state.
C33_Witness ==
    /\ result.fn = "get_pod_health_status" /\ result.ok
    /\ Len(the_pod.container_statuses) = 2
    /\ Populated(the_pod.container_statuses[1]) = 2
    /\ the_pod.container_statuses[1].state[1].running = None
    /\ result.value.containers[1].state = "waiting"
    /\ the_pod.container_statuses[2].state # None
    /\ Populated(the_pod.container_statuses[2]) = 0
    /\ "state" \notin DOMAIN result.value.containers[2]

(* ================== properties: the cycle terminates =================== *)
\* The calls that the remediation of one record can make at most: the pod
\* read, one ReplicaSet read per owner reference, the patch and the delay.
MaxCallsPerRecord == MaxCycleOwners + 3

\* Every namespace is listed at most once and every scanned record is handed
\* to heal_deployment at most once, which makes a bounded number of calls.
OnePass ==
    /\ Len(ListCalls) <= Len(Namespaces)
    /\ Len(heal_log) <= Len(Records(unhealthy_pods))
    /\ \A h \in 1..Len(heal_log) :
        /\ heal_log[h].pod_info = Records(unhealthy_pods)[h]
        /\ Cardinality(CallsOf(calls, h)) <= MaxCallsPerRecord
    /\ Len(calls) <= Len(Namespaces) + MaxCallsPerRecord * Len(Records(unhealthy_pods))

\* C34: a healing cycle is one bounded pass: whatever the namespaces hold and
\* whichever calls fail, every namespace is listed and every scanned record
\* handled at most once, and run_healing_cycle eventually returns.
C34_CycleIsOneBoundedPass == []OnePass /\ <>(pc = "returned")

\* A cycle returned after a failed list, a failed remediation and a healed one.
C34_Witness ==
    /\ pc = "returned" /\ FailedCalls({"list_namespaced_pod"}) = 1
    /\ Len(heal_log) = 2 /\ ~heal_log[1].ret /\ heal_log[2].ret
    /\ FailedCalls({"read_namespaced_pod"}) = 1 /\ NoCycleError

(* ================ properties: a sequence of cycles ==================== *)
\* What a call asks of the cluster, and what the cluster answers.
Request(c) ==
    [op |-> c.op, name |-> c.name, namespace |-> c.namespace, heal |-> c.heal,
     body |-> IF IsPatch(c) THEN c.body ELSE <<>>]
Response(c) == [ok |-> c.ok, value |-> c.value]

\* The first n calls of two cycles were answered alike.
SameReads(a, b, n) == \A i \in 1..n : Response(a.calls[i]) = Response(b.calls[i])

ShorterLog(a, b) == IF Len(a.calls) < Len(b.calls) THEN Len(a.calls) ELSE Len(b.calls)

\* Two cycles of the process differ only where the cluster answered them
\* differently: each call is fixed by the answers before it, and with all
\* answers alike the scan result, the remediations and their results are alike.
SameDecisions(a, b) ==
    /\ \A i \in 1..ShorterLog(a, b) :
        SameReads(a, b, i - 1) => Request(a.calls[i]) = Request(b.calls[i])
    /\ (a.pc # "scan" /\ b.pc # "scan" /\ SameReads(a, b, Len(Namespaces)))
        => a.unhealthy_pods = b.unhealthy_pods
    /\ (a.pc = "done" /\ b.pc = "done" /\ SameReads(a, b, ShorterLog(a, b)))
        => /\ a.calls = b.calls
           /\ a.heal_log = b.heal_log
           /\ a.healed_count = b.healed_count

\* No label of the counters of cycle state b is below its value in a.
NotBelow(a, b) ==
    /\ \A l \in ActionLabels : b.HEAL_ACTIONS[l] >= a.HEAL_ACTIONS[l]
    /\ \A e \in ErrorTypes : b.HEAL_ERRORS[e] >= a.HEAL_ERRORS[e]

\* C32: over a sequence of healing cycles of one process the action and error
\* counters never decrease, a cycle starting from the counts the cycle before
\* it left; and nothing else is carried over: the configuration does not
\* change, the gauge is set by each cycle's own scan, and the calls, the scan
\* result and the remediation results of a cycle are fixed by the configuration
\* and by what the cluster answered to that cycle.
C32_CountersAccumulateCyclesIndependent ==
    /\ [][/\ Len(cycles') >= Len(cycles)
          /\ NotBelow(cycles[Len(cycles)], cycles'[Len(cycles')])
          /\ \A k \in 1..Len(cycles) : NotBelow(cycles[k], cycles'[k])
          /\ dry_run' = dry_run /\ restart_threshold' = restart_threshold]_vars
    /\ [](/\ \A k \in 1..(Len(cycles) - 1) : NotBelow(cycles[k], cycles[k + 1])
          /\ \A k \in 1..Len(cycles) :
                /\ cycles[k].pc # "scan"
                    => cycles[k].UNHEALTHY_PODS = TotalUnhealthy(cycles[k].unhealthy_pods)
                /\ \A j \in 1..Len(cycles) : SameDecisions(cycles[j], cycles[k]))

\* The first cycle healed a pod; the second, started with that count, met a
\* cluster in which the pod's list failed, found nothing and healed nothing.
C32_Witness ==
    /\ Len(cycles) = 2 /\ cycles[1].pc = "done" /\ cycles[2].pc = "done"
    /\ cycles[1].healed_count = 1 /\ cycles[2].healed_count = 0
    /\ cycles[2].unhealthy_pods = <<>>
    /\ cycles[2].HEAL_ERRORS["api_error"] = cycles[1].HEAL_ERRORS["api_error"] + 1
    /\ cycles[2].HEAL_ACTIONS = cycles[1].HEAL_ACTIONS
    /\ \E l \in ActionLabels : cycles[2].HEAL_ACTIONS[l] = 1

\* Two cycles that the cluster answered alike, the second starting from the
\* counts of the first, made the same remediation.
C32_WitnessSameReads ==
    /\ Len(cycles) = 2 /\ cycles[1].pc = "done" /\ cycles[2].pc = "done"
    /\ Len(cycles[1].heal_log) = 1 /\ cycles[1].heal_log[1].ret
    /\ Len(cycles[1].calls) = Len(cycles[2].calls)
    /\ SameReads(cycles[1], cycles[2], Len(cycles[1].calls))
    /\ \E l \in ActionLabels : cycles[2].HEAL_ACTIONS[l] = 2

(* =============== properties: the restart patch applied ================ *)
\* The three annotations of the restart patch.
RestartKeys ==
    {"kubectl.kubernetes.io/restartedAt", "auto-healer/restarted-at", "auto-healer/reason"}

\* The step is a call of restart_deployment.
PatchStep == Len(calls') = Len(calls) + 1

\* C31: the restart patch sets, on the pod template and nowhere else, the two
\* timestamp annotations to one value, the time of the call, and the reason
\* annotation; as a merge patch it is idempotent: applying it again leaves the
\* Deployment as after one application, with no new rollout, so a second patch
\* with the timestamp the template already carries changes nothing, while a
\* patch with a new timestamp changes the template and starts a rollout; no
\* field that the patch does not name changes.
C31_RestartPatchIdempotent ==
    [][PatchStep
        => LET call == calls'[Len(calls')]
               body == call.body
               fields == Fields(body)
               stamp == TemplateAnnotation("kubectl.kubernetes.io/restartedAt")
               carried == /\ stamp \in DOMAIN cluster.object
                          /\ \A p \in DOMAIN fields :
                                p \in DOMAIN cluster.object /\ cluster.object[p] = fields[p]
           IN /\ DOMAIN fields = {TemplateAnnotation(k) : k \in RestartKeys}
              /\ fields[stamp] = fields[TemplateAnnotation("auto-healer/restarted-at")]
              /\ fields[stamp] = clock
              /\ fields[TemplateAnnotation("auto-healer/reason")] = "high-restart-count"
              /\ ~call.ok => cluster' = cluster
              /\ call.ok
                    => /\ \A p \in DOMAIN fields : cluster'.object[p] = fields[p]
                       /\ \A p \in DOMAIN cluster.object \ DOMAIN fields :
                            cluster'.object[p] = cluster.object[p]
                       /\ DOMAIN cluster'.object = DOMAIN cluster.object \cup DOMAIN fields
                       /\ Patched(cluster', body) = cluster'
                       /\ carried => cluster' = cluster
                       /\ (stamp \notin DOMAIN cluster.object \/ cluster.object[stamp] # clock)
                            => /\ Template(cluster'.object) # Template(cluster.object)
                               /\ cluster'.rollouts = cluster.rollouts + 1]_vars

\* The patch was accepted twice at one instant and once at a later one: the
\* Deployment, which had an annotation of its own, went through two rollouts.
C31_Witness ==
    /\ Len(calls) = 3 /\ \A i \in 1..3 : calls[i].ok
    /\ calls[1].body = calls[2].body /\ calls[3].body # calls[2].body
    /\ cluster.rollouts = 2
    /\ TemplateAnnotation("team") \in DOMAIN cluster.object
    /\ cluster.object[TemplateAnnotation("team")] = "sre"
    /\ cluster.object[TemplateAnnotation("auto-healer/restarted-at")] = clock

====
